---- MODULE Spec2Model ----
(***************************************************************************)
(* Model of the patient mobile client.                                     *)
(*                                                                         *)
(* Part 1: the real-time AI check-in session (AICheckInScreen.tsx).        *)
(* Every variable is a useState cell or a useRef cell of the component, a  *)
(* position of one of its async handlers (the places where a handler is    *)
(* suspended at an await of a native / network call), or a record of what  *)
(* the component has sent out (socket emits, speak commands).              *)
(*                                                                         *)
(* JavaScript runs one handler at a time up to its next real await, so an  *)
(* action is one such run-to-await segment.  State that the component      *)
(* always assigns together in one segment is one variable:                 *)
(*   avatarReady        = avatarReady state + avatarReadyRef               *)
(*   isAssistantSpeaking = isAssistantSpeakingRef + assistantSpeaking      *)
(* Handlers bound to rendered elements read the committed state (a render  *)
(* follows every state update before the next input event is delivered).   *)
(* Texts are sequences of one-character strings so that trim() and slice() *)
(* are computed, not assumed.                                              *)
(***************************************************************************)
EXTENDS Integers, Sequences, FiniteSets, TLC

----------------------------------------------------------------------------
(* Bounds of the model *)

MaxText == 2        \* longest text the server sends, in characters
MaxQueue == 2       \* longest pending-speak queue explored
MaxSpeaks == 3      \* speak commands sent to the avatar player that are counted
MaxChunks == 2      \* buffered TTS chunks explored
MaxInflight == 1    \* handlers of one kind suspended at an await at the same time
MaxAlerts == 1      \* socket 'error' alerts that are counted
TickMs == 1000      \* granularity of the clock, in milliseconds
MaxDates == 2       \* days of the displayed month that have availability
MaxTimes == 2       \* start times a day offers
MaxAttempts == 1    \* booking attempts of one visit of the appointments screen
MaxToggles == 4     \* status toggles of one visit of the exam screen
MaxApiCalls == 2    \* API calls answered in one run of the auth store
MaxSubmissions == 3 \* signatures the backend accepts in a run
MaxStrokes == 2     \* strokes drawn between two clears
MaxPoints == 2      \* points of a stroke
MaxPaths == 2       \* path strings of a signature
MaxPathLen == 2     \* characters of a path string

(* Constants of the program *)

DEDUP_WINDOW_MS == 2000
MIN_AUDIO_B64 == 1500
TYPE_MIN_MS == 300
TYPE_MAX_MS == 180000

----------------------------------------------------------------------------
(* Pure helpers *)

Min(a, b) == IF a < b THEN a ELSE b
Max(a, b) == IF a > b THEN a ELSE b

Chars == {" ", "a"}

TextsUpTo(n) == UNION {[1..k -> Chars] : k \in 0..n}

\* String.prototype.trim
RECURSIVE TrimLeft(_)
TrimLeft(s) == IF s # <<>> /\ Head(s) = " " THEN TrimLeft(Tail(s)) ELSE s

RECURSIVE TrimRight(_)
TrimRight(s) ==
    IF s # <<>> /\ s[Len(s)] = " " THEN TrimRight(SubSeq(s, 1, Len(s) - 1)) ELSE s

Trim(s) == TrimRight(TrimLeft(s))

\* String.prototype.slice(0, n)
Slice(s, n) == SubSeq(s, 1, Min(n, Len(s)))

\* JavaScript  a || b  on strings: the empty string is falsy
OrElse(a, b) == IF a # <<>> THEN a ELSE b

NoInfo == [text |-> <<>>, duration |-> 0, elapsed |-> 0]

----------------------------------------------------------------------------
VARIABLES
    \* --- component state (useState) ---
    recording, transcript, isDone, finishedMessage, isConnecting,
    interviewStarted, isPressing, creatingSession, avatarStatus, heygenToken,
    canSpeak, syncedTranscript, preparing, step,
    \* --- refs ---
    socket, streaming, ttsChunks, ttsFlushTimer, isAssistantSpeaking,
    avatarReady, pendingSpeakQueue, heygenEnabled, avatarSessionId,
    lastSpokenText, lastSpeakAge, awaitingAvatarTask, pendingAssistantText,
    typeTimer, typeInfo,
    \* --- positions of suspended async handlers ---
    mountPc, flowPc, pressInPending, pressOutPending, flushPending,
    playbackTimers,
    \* --- collaborators and outputs ---
    recorderState, held, startEmitted, emittedAudio, speakCount, alertCount,
    detached, speaksOutstanding,
    \* --- lifetime of the component ---
    mounted

\* --- appointments screen (AppointmentsScreen.tsx) ---
VARIABLES
    \* component state
    appointments, loading, booking, doctorId, selectedDate, slots,
    typeModalVisible, pendingSlot, currentMonth, monthSlots, monthKeys,
    \* (monthKeys: the dates that are keys of the monthSlots Map)
    \* requests in flight, each with the values its closure captured
    apptLoads, dayLoads, monthLoads, bookCall, refreshTimer,
    \* the server's free slots, the alerts shown, the attempts made, and the
    \* two collections as they were when the attempt in flight began
    serverFree, apptAlerts, attempts, slotsBefore, monthBefore

apptVars == <<appointments, loading, booking, doctorId, selectedDate, slots,
              typeModalVisible, pendingSlot, currentMonth, monthSlots, monthKeys,
              apptLoads, dayLoads, monthLoads, bookCall, refreshTimer,
              serverFree, apptAlerts, attempts, slotsBefore, monthBefore>>

\* --- exam detail screen (ExamDetailScreen.tsx) ---
VARIABLES
    exam, isLoading,
    \* the fetch and the status updates in flight, the server's status of the
    \* exam, the alerts shown, the toggles made
    fetchPending, toggleCalls, serverStatus, examAlerts, toggles

examVars == <<exam, isLoading, fetchPending, toggleCalls, serverStatus,
              examAlerts, toggles>>

\* --- auth store (AuthContext.tsx) and the API client's interceptor (realApi.ts) ---
VARIABLES
    \* in-memory state of AuthProvider and the two AsyncStorage entries
    authUser, authToken, authLoading, storedToken, storedUser,
    \* the module-level _logoutHandler, where the provider is (not mounted,
    \* reading the storage, idle), the logouts awaiting multiRemove
    logoutHandler, authPc, logoutsPending,
    \* how often _logoutHandler was called, what the last API call gave its
    \* caller, the API calls made, and the authentication that was in effect
    \* when the app was last restarted
    handlerCalls, apiResult, apiCalls, inEffect

authVars == <<authUser, authToken, authLoading, storedToken, storedUser,
              logoutHandler, authPc, logoutsPending, handlerCalls, apiResult,
              apiCalls, inEffect>>

\* --- consent document generator (pdfGenerator.ts) ---
VARIABLES
    \* the signature handed to generateConsentPDF, the HTML document it wrote
    \* and whether it threw
    sigInput, consentDoc, pdfError

svgVars == <<sigInput, consentDoc, pdfError>>

\* --- consent flow (DigitalSignatureScreen) ---
VARIABLES
    \* component state: the profile fetched at mount, the two flags
    patientData, isLoadingPatient, isSubmitting,
    \* the await handleSignatureComplete is suspended at, the steps of the
    \* running (or last) flow with their outcomes, the last alert shown
    consentPc, consentLog, consentAlert,
    \* what the backend holds: signatures stored, consent marked complete
    signaturesOnServer, consentComplete

consentVars == <<patientData, isLoadingPatient, isSubmitting, consentPc,
                 consentLog, consentAlert, signaturesOnServer, consentComplete>>

\* --- signature pad (DigitalSignature component) ---
VARIABLES
    \* component state: the stored paths, the path on display, the flag, and
    \* the ref that accumulates the stroke being drawn
    padPaths, currentPath, hasSignature, pathRef,
    \* how many paths were last handed to onSignatureComplete (0: none yet)
    padSaved,
    \* the gesture handler's state, the points the finger has touched in the
    \* stroke in progress, and the finished strokes since the last clear
    gesture, strokePts, drawn

padVars == <<padPaths, currentPath, hasSignature, pathRef, padSaved,
             gesture, strokePts, drawn>>

\* the cells of the components shared by the screens
sharedVars == <<authVars, svgVars, consentVars, padVars>>

stateVars == <<recording, transcript, isDone, finishedMessage, isConnecting,
               interviewStarted, isPressing, creatingSession, avatarStatus,
               heygenToken, canSpeak, syncedTranscript, preparing, step>>
refVars == <<socket, streaming, ttsChunks, ttsFlushTimer, isAssistantSpeaking,
             avatarReady, pendingSpeakQueue, heygenEnabled, avatarSessionId,
             lastSpokenText, lastSpeakAge, awaitingAvatarTask,
             pendingAssistantText, typeTimer, typeInfo>>
pcVars == <<mountPc, flowPc, pressInPending, pressOutPending, flushPending,
            playbackTimers>>
outVars == <<recorderState, held, startEmitted, emittedAudio, speakCount,
             alertCount, detached>>

\* the cells of the check-in screen
checkInVars == <<stateVars, refVars, pcVars, outVars, speaksOutstanding, mounted>>

\* the cells of the other screens
otherScreens == <<apptVars, examVars, sharedVars>>

\* the cells of the three screens
screenVars == <<checkInVars, apptVars, examVars>>

\* what the auth store and the interceptor leave alone
outsideAuth == <<screenVars, svgVars, consentVars, padVars>>

\* what the document generator leaves alone
outsideSvg == <<screenVars, authVars, consentVars, padVars>>

\* what the consent flow leaves alone
outsideConsent == <<screenVars, authVars, svgVars, padVars>>

\* what the signature pad leaves alone
outsidePad == <<screenVars, authVars, svgVars, consentVars>>

vars == <<checkInVars, otherScreens>>

\* what a handler of the check-in screen that neither sends a speak command
\* nor unmounts the screen leaves alone
restVars == <<speaksOutstanding, mounted, otherScreens>>

----------------------------------------------------------------------------
(* The state right after the first render, before the mount effect's      *)
(* permission request has resolved.                                       *)

\* availability slots: a day of the month and a start time
Dates == 1..MaxDates
Times == 1..MaxTimes
AllSlots == Dates \X Times

\* the calendar shows this month, which holds every date of Dates, or the
\* next one, in which the doctor offers nothing
Months == {"this", "next"}
MonthOf(d) == "this"

NoCall == [slot |-> <<0, 0>>, date |-> 0, month |-> "none"]

\* AppointmentsScreen after its first render: nothing loaded, the mount
\* effect has called loadMyAppointments() and api.getClinicians().  On the
\* server every slot is free but the last one of the last day, so that day
\* has a single free slot.
AppointmentsInit ==
    /\ appointments = {}
    /\ loading = TRUE
    /\ booking = FALSE
    /\ doctorId = FALSE
    /\ selectedDate = 1
    /\ slots = <<>>
    /\ typeModalVisible = FALSE
    /\ pendingSlot = <<0, 0>>
    /\ currentMonth = "this"
    /\ monthSlots = [d \in Dates |-> <<>>]
    /\ monthKeys = {}
    /\ apptLoads = 1
    /\ dayLoads = {}
    /\ monthLoads = {}
    /\ bookCall = NoCall
    /\ refreshTimer = {}
    /\ serverFree = AllSlots \ {<<MaxDates, MaxTimes>>}
    /\ apptAlerts = <<>>
    /\ attempts = 0
    /\ slotsBefore = <<>>
    /\ monthBefore = <<>>

\* accounts; a token and a user blob are named by the account they belong to
Accounts == {"a", "b"}
NoOne == "none"

\* AuthProvider after its first render and before its mount effect; the
\* storage is empty (a fresh install)
AuthInit ==
    /\ authUser = NoOne
    /\ authToken = NoOne
    /\ authLoading = TRUE
    /\ storedToken = NoOne
    /\ storedUser = NoOne
    /\ logoutHandler = "noop"
    /\ authPc = "unmounted"
    /\ logoutsPending = 0
    /\ handlerCalls = 0
    /\ apiResult = "none"
    /\ apiCalls = 0
    /\ inEffect = <<NoOne, NoOne>>

\* the screen has just mounted: the profile request is in flight
ConsentInit ==
    /\ patientData = "none"
    /\ isLoadingPatient = TRUE
    /\ isSubmitting = FALSE
    /\ consentPc = "idle"
    /\ consentLog = <<>>
    /\ consentAlert = "none"
    /\ signaturesOnServer = 0
    /\ consentComplete = FALSE

\* an empty pad, no finger on it
PadInit ==
    /\ padPaths = <<>>
    /\ currentPath = <<>>
    /\ hasSignature = FALSE
    /\ pathRef = <<>>
    /\ padSaved = 0
    /\ gesture = "undetermined"
    /\ strokePts = <<>>
    /\ drawn = <<>>

\* no signature has been handed to the document generator yet
NoSignature == [paths |-> <<>>, width |-> 0, height |-> 0, given |-> FALSE]

\* no document has been written yet
NoDocument ==
    [written |-> FALSE,
     signature |-> [tag |-> "none", width |-> <<>>, height |-> <<>>,
                    viewBox |-> <<>>, d |-> <<>>]]

SvgInit ==
    /\ sigInput = NoSignature
    /\ consentDoc = NoDocument
    /\ pdfError = FALSE

ExamStatuses == {"pending", "completed", "uploaded"}

\* ExamDetailScreen after its first render: the effect has called fetchExam()
ExamInit ==
    /\ exam = "null"
    /\ isLoading = TRUE
    /\ fetchPending = TRUE
    /\ toggleCalls = <<>>
    /\ serverStatus = "unknown"
    /\ examAlerts = 0
    /\ toggles = 0

Init ==
    /\ AppointmentsInit
    /\ ExamInit
    /\ AuthInit
    /\ SvgInit
    /\ ConsentInit
    /\ PadInit
    /\ recording = FALSE
    /\ transcript = <<>>
    /\ isDone = FALSE
    /\ finishedMessage = FALSE
    /\ isConnecting = TRUE
    /\ interviewStarted = FALSE
    /\ isPressing = FALSE
    /\ creatingSession = FALSE
    /\ avatarStatus = ""
    /\ heygenToken = FALSE
    /\ canSpeak = FALSE
    /\ syncedTranscript = <<>>
    /\ preparing = FALSE
    /\ step = 1
    /\ socket = "none"
    /\ streaming = FALSE
    /\ ttsChunks = 0
    /\ ttsFlushTimer = FALSE
    /\ isAssistantSpeaking = FALSE
    /\ avatarReady = FALSE
    /\ pendingSpeakQueue = <<>>
    /\ heygenEnabled = FALSE
    /\ avatarSessionId = FALSE
    /\ lastSpokenText = <<>>
    /\ lastSpeakAge = DEDUP_WINDOW_MS   \* lastSpeakAtRef = 0: long ago
    /\ awaitingAvatarTask = FALSE
    /\ pendingAssistantText = <<>>
    /\ typeTimer = FALSE
    /\ typeInfo = NoInfo
    /\ mountPc = "permission"
    /\ flowPc = "idle"
    /\ pressInPending = 0
    /\ pressOutPending = 0
    /\ flushPending = 0
    /\ playbackTimers = 0
    /\ recorderState = "idle"
    /\ held = FALSE
    /\ startEmitted = 0
    /\ emittedAudio = {}
    /\ speakCount = 0
    /\ alertCount = 0
    /\ detached = FALSE        \* detachFromHeygen() has run
    /\ speaksOutstanding = 0   \* speak commands sent and not yet reported back
    /\ mounted = TRUE

----------------------------------------------------------------------------
(* Rendering: which elements exist and which are enabled                   *)

\* <WebView> is rendered, so webSdkRef.current is set and onMessage can fire
WebViewMounted ==
    mounted /\ step = 2 /\ (interviewStarted \/ preparing) /\ heygenToken

\* the full-screen "Starting interview" overlay covers every button
OverlayShown == mounted /\ step = 2 /\ preparing

\* Start Interview button is rendered and not disabled
StartButtonEnabled ==
    /\ mounted /\ step = 2 /\ ~interviewStarted
    /\ ~(isDone \/ isConnecting \/ creatingSession)
    /\ ~OverlayShown

\* the mic Pressable is rendered and not disabled
MicEnabled ==
    /\ mounted /\ step = 2 /\ interviewStarted
    /\ ~(isDone \/ isConnecting \/ ~interviewStarted \/ ~canSpeak)
    /\ ~OverlayShown

\* the "finished" Modal is rendered and visible
FinishedModalVisible == mounted /\ step = 2 /\ ~interviewStarted /\ isDone

\* the transcript card is rendered with text in it
TranscriptShown ==
    mounted /\ step = 2 /\ interviewStarted /\ syncedTranscript # <<>>

----------------------------------------------------------------------------
(* Mount effect: permission, audio mode, socket creation                   *)

\* a mount effect that alerts on a denial and sets the socket up all the same
PermissionResultNoReturn(status) ==
    /\ mountPc = "permission"
    /\ IF status = "granted"
         THEN mountPc' = "setup" /\ alertCount' = alertCount /\ socket' = socket
         ELSE /\ mountPc' = "denied" /\ alertCount' = alertCount + 1
              /\ socket' = "connecting"
    /\ UNCHANGED <<stateVars, streaming, ttsChunks, ttsFlushTimer,
                   isAssistantSpeaking, avatarReady, pendingSpeakQueue,
                   heygenEnabled, avatarSessionId, lastSpokenText, lastSpeakAge,
                   awaitingAvatarTask, pendingAssistantText, typeTimer, typeInfo,
                   flowPc, pressInPending, pressOutPending,
                   flushPending, playbackTimers, recorderState, held,
                   startEmitted, emittedAudio, speakCount, detached>>
    /\ UNCHANGED restVars

\* Audio.requestRecordingPermissionsAsync() resolves
PermissionResult(status) ==
    /\ mountPc = "permission"
    /\ IF status = "granted"
         THEN mountPc' = "setup" /\ alertCount' = alertCount
         ELSE mountPc' = "denied" /\ alertCount' = alertCount + 1
    /\ UNCHANGED <<stateVars, refVars, flowPc, pressInPending, pressOutPending,
                   flushPending, playbackTimers, recorderState, held,
                   startEmitted, emittedAudio, speakCount, detached>>
    /\ UNCHANGED restVars

\* a socket setup that takes the creation of the socket for its connection
SocketSetupConnected(ok) ==
    /\ mountPc = "setup"
    /\ IF ok
         THEN mountPc' = "ready" /\ socket' = "connecting"
              /\ alertCount' = alertCount /\ isConnecting' = FALSE
         ELSE mountPc' = "failed" /\ socket' = socket
              /\ alertCount' = alertCount + 1 /\ isConnecting' = isConnecting
    /\ UNCHANGED <<recording, transcript, isDone, finishedMessage,
                   interviewStarted, isPressing, creatingSession, avatarStatus,
                   heygenToken, canSpeak, syncedTranscript, preparing, step,
                   streaming, ttsChunks, ttsFlushTimer,
                   isAssistantSpeaking, avatarReady, pendingSpeakQueue,
                   heygenEnabled, avatarSessionId, lastSpokenText, lastSpeakAge,
                   awaitingAvatarTask, pendingAssistantText, typeTimer, typeInfo,
                   flowPc, pressInPending, pressOutPending, flushPending,
                   playbackTimers, recorderState, held, startEmitted,
                   emittedAudio, speakCount, detached>>
    /\ UNCHANGED restVars

\* setAudioModeAsync / AsyncStorage.getItem resolve (or throw), then io(...)
\* creates the socket and the handlers are registered
SocketSetup(ok) ==
    /\ mountPc = "setup"
    /\ IF ok
         THEN mountPc' = "ready" /\ socket' = "connecting"
              /\ alertCount' = alertCount
         ELSE mountPc' = "failed" /\ socket' = socket
              /\ alertCount' = alertCount + 1
    /\ UNCHANGED <<stateVars, streaming, ttsChunks, ttsFlushTimer,
                   isAssistantSpeaking, avatarReady, pendingSpeakQueue,
                   heygenEnabled, avatarSessionId, lastSpokenText, lastSpeakAge,
                   awaitingAvatarTask, pendingAssistantText, typeTimer, typeInfo,
                   flowPc, pressInPending, pressOutPending, flushPending,
                   playbackTimers, recorderState, held, startEmitted,
                   emittedAudio, speakCount, detached>>
    /\ UNCHANGED restVars

\* socket.on('connect'), first connection or a reconnection of the client
SocketConnect ==
    /\ socket \in {"connecting", "disconnected"}
    /\ socket' = "connected"
    /\ isConnecting' = FALSE
    /\ UNCHANGED <<recording, transcript, isDone, finishedMessage,
                   interviewStarted, isPressing, creatingSession, avatarStatus,
                   heygenToken, canSpeak, syncedTranscript, preparing, step,
                   streaming, ttsChunks, ttsFlushTimer, isAssistantSpeaking,
                   avatarReady, pendingSpeakQueue, heygenEnabled,
                   avatarSessionId, lastSpokenText, lastSpeakAge,
                   awaitingAvatarTask, pendingAssistantText, typeTimer, typeInfo,
                   pcVars, outVars>>
    /\ UNCHANGED restVars

\* cleanupStreaming()
CleanupStreaming ==
    /\ streaming' = FALSE
    /\ ttsFlushTimer' = FALSE
    /\ typeTimer' = FALSE

\* socket.on('done')
SocketDone ==
    /\ socket = "connected"
    /\ isDone' = TRUE
    /\ finishedMessage' = TRUE
    /\ CleanupStreaming
    /\ UNCHANGED <<recording, transcript, isConnecting, interviewStarted,
                   isPressing, creatingSession, avatarStatus, heygenToken,
                   canSpeak, syncedTranscript, preparing, step,
                   socket, ttsChunks, isAssistantSpeaking, avatarReady,
                   pendingSpeakQueue, heygenEnabled, avatarSessionId,
                   lastSpokenText, lastSpeakAge, awaitingAvatarTask,
                   pendingAssistantText, typeInfo, pcVars, outVars>>
    /\ UNCHANGED restVars

\* socket.on('disconnect'): both handlers; the second one reads the isDone of
\* the render that registered it, which is false
SocketDisconnect ==
    /\ socket = "connected"
    /\ socket' = "disconnected"
    /\ isDone' = TRUE
    /\ finishedMessage' = TRUE
    /\ UNCHANGED <<recording, transcript, isConnecting, interviewStarted,
                   isPressing, creatingSession, avatarStatus, heygenToken,
                   canSpeak, syncedTranscript, preparing, step,
                   streaming, ttsChunks, ttsFlushTimer, isAssistantSpeaking,
                   avatarReady, pendingSpeakQueue, heygenEnabled,
                   avatarSessionId, lastSpokenText, lastSpeakAge,
                   awaitingAvatarTask, pendingAssistantText, typeTimer, typeInfo,
                   pcVars, outVars>>
    /\ UNCHANGED restVars

\* socket.on('error'): a non-fatal alert
SocketError ==
    /\ socket = "connected"
    /\ alertCount < MaxAlerts
    /\ alertCount' = alertCount + 1
    /\ UNCHANGED <<stateVars, refVars, pcVars, recorderState, held,
                   startEmitted, emittedAudio, speakCount, detached>>
    /\ UNCHANGED restVars

\* "Continue to AI Check-in" button of step 1
ContinueToCheckIn ==
    /\ mounted /\ step = 1
    /\ step' = 2
    /\ UNCHANGED <<recording, transcript, isDone, finishedMessage, isConnecting,
                   interviewStarted, isPressing, creatingSession, avatarStatus,
                   heygenToken, canSpeak, syncedTranscript, preparing,
                   refVars, pcVars, outVars>>
    /\ UNCHANGED restVars

\* the cleanup of the mount effect: the screen is left.  socketRef.current is
\* disconnected if the socket exists by now, cleanupStreaming() clears the
\* TTS debounce timer and the typewriter interval.  Handlers that are
\* suspended at an await are not told.  The finger leaves with the screen.
\* React drops the state updates of an unmounted component; the model keeps
\* writing the state cells, which nothing can observe any more.
Unmount ==
    /\ mounted
    /\ mounted' = FALSE
    /\ socket' = IF socket = "none" THEN "none" ELSE "closed"
    /\ CleanupStreaming
    /\ held' = FALSE
    /\ UNCHANGED <<stateVars, ttsChunks, isAssistantSpeaking, avatarReady,
                   pendingSpeakQueue, heygenEnabled, avatarSessionId,
                   lastSpokenText, lastSpeakAge, awaitingAvatarTask,
                   pendingAssistantText, typeInfo, pcVars, recorderState,
                   startEmitted, emittedAudio, speakCount, alertCount, detached,
                   speaksOutstanding, otherScreens>>

----------------------------------------------------------------------------
(* Speaking through the avatar player                                      *)

\* The cells speakViaPlayer reads and writes, as one record
Speaker == [last |-> lastSpokenText, age |-> lastSpeakAge,
            count |-> speakCount, status |-> avatarStatus]

\* speakViaPlayer without its duplicate guard
SpeakViaPlayerNoDedup(sp, text, web) ==
    LET normalized == Trim(text) IN
    IF normalized = <<>> THEN sp
    ELSE IF web
      THEN [last |-> normalized, age |-> 0, count |-> sp.count + 1,
            status |-> "sent via player"]
    ELSE [sp EXCEPT !.last = normalized, !.age = 0]

\* speakViaPlayer(text) applied to speaker cells sp; web = webSdkRef.current
\* is set.  count is the number of speak scripts injected into the player.
SpeakViaPlayer(sp, text, web) ==
    LET normalized == Trim(text) IN
    IF normalized = <<>> THEN sp
    ELSE IF normalized = sp.last /\ sp.age < DEDUP_WINDOW_MS
      THEN [sp EXCEPT !.status = "skipped duplicate"]
    ELSE IF web
      THEN [last |-> normalized, age |-> 0, count |-> sp.count + 1,
            status |-> "sent via player"]
    ELSE [sp EXCEPT !.last = normalized, !.age = 0]

\* the for-loop of flushPendingSpeaks over the spliced items
RECURSIVE SpeakAll(_, _, _)
SpeakAll(sp, items, web) ==
    IF items = <<>> THEN sp
    ELSE SpeakAll(SpeakViaPlayer(sp, Head(items), web), Tail(items), web)

\* flushPendingSpeaks() with avatarReadyRef.current = ready
FlushPendingSpeaks(sp, ready, web) ==
    IF ~ready \/ pendingSpeakQueue = <<>> THEN sp
    ELSE SpeakAll(sp, pendingSpeakQueue, web)

SetSpeaker(sp) ==
    /\ lastSpokenText' = sp.last
    /\ lastSpeakAge' = sp.age
    /\ speakCount' = sp.count
    /\ avatarStatus' = sp.status

----------------------------------------------------------------------------
(* Server events of a turn                                                 *)

\* an assistant_text_delta handler that renders the text at once
AssistantTextDeltaRenders(text) ==
    /\ socket = "connected"
    /\ pendingAssistantText' = OrElse(text, pendingAssistantText)
    /\ syncedTranscript' = text
    /\ canSpeak' = FALSE
    /\ awaitingAvatarTask' = (heygenEnabled \/ awaitingAvatarTask)
    /\ UNCHANGED <<recording, transcript, isDone, finishedMessage, isConnecting,
                   interviewStarted, isPressing, creatingSession, avatarStatus,
                   heygenToken, preparing, step,
                   socket, streaming, ttsChunks, ttsFlushTimer,
                   isAssistantSpeaking, avatarReady, pendingSpeakQueue,
                   heygenEnabled, avatarSessionId, lastSpokenText, lastSpeakAge,
                   typeTimer, typeInfo, pcVars, outVars>>
    /\ UNCHANGED restVars

\* socket.on('assistant_text_delta'), both handlers
AssistantTextDelta(text) ==
    /\ socket = "connected"
    /\ pendingAssistantText' = OrElse(text, pendingAssistantText)
    /\ canSpeak' = FALSE
    /\ awaitingAvatarTask' = (heygenEnabled \/ awaitingAvatarTask)
    /\ UNCHANGED <<recording, transcript, isDone, finishedMessage, isConnecting,
                   interviewStarted, isPressing, creatingSession, avatarStatus,
                   heygenToken, syncedTranscript, preparing, step,
                   socket, streaming, ttsChunks, ttsFlushTimer,
                   isAssistantSpeaking, avatarReady, pendingSpeakQueue,
                   heygenEnabled, avatarSessionId, lastSpokenText, lastSpeakAge,
                   typeTimer, typeInfo, pcVars, outVars>>
    /\ UNCHANGED restVars

\* socket.on('final_transcript')
FinalTranscript(text) ==
    /\ socket = "connected"
    /\ transcript' = text
    /\ pendingAssistantText' = OrElse(text, pendingAssistantText)
    /\ IF heygenEnabled
         THEN IF ~avatarReady
                THEN /\ Len(pendingSpeakQueue) < MaxQueue
                     /\ pendingSpeakQueue' = Append(pendingSpeakQueue, text)
                     /\ UNCHANGED <<awaitingAvatarTask, canSpeak, lastSpokenText,
                                    lastSpeakAge, speakCount, avatarStatus,
                                    syncedTranscript>>
                ELSE /\ awaitingAvatarTask' = TRUE
                     /\ canSpeak' = FALSE
                     /\ SetSpeaker(SpeakViaPlayer(Speaker, text, WebViewMounted))
                     /\ speakCount' <= MaxSpeaks
                     /\ UNCHANGED <<pendingSpeakQueue, syncedTranscript>>
         ELSE /\ syncedTranscript' = text
              /\ canSpeak' = FALSE
              /\ UNCHANGED <<awaitingAvatarTask, pendingSpeakQueue,
                             lastSpokenText, lastSpeakAge, speakCount,
                             avatarStatus>>
    /\ speaksOutstanding' = speaksOutstanding + (speakCount' - speakCount)
    /\ UNCHANGED <<recording, isDone, finishedMessage, isConnecting,
                   interviewStarted, isPressing, creatingSession, heygenToken,
                   preparing, step,
                   socket, streaming, ttsChunks, ttsFlushTimer,
                   isAssistantSpeaking, avatarReady, heygenEnabled,
                   avatarSessionId, typeTimer, typeInfo,
                   pcVars, recorderState, held, startEmitted, emittedAudio,
                   alertCount, detached>>
    /\ UNCHANGED <<mounted, otherScreens>>

\* a turn_ready handler that reopens the mic whatever the avatar is doing
TurnReadyUnguarded ==
    /\ socket = "connected"
    /\ canSpeak' = TRUE
    /\ UNCHANGED <<recording, transcript, isDone, finishedMessage, isConnecting,
                   interviewStarted, isPressing, creatingSession, avatarStatus,
                   heygenToken, syncedTranscript, preparing, step,
                   refVars, pcVars, outVars>>
    /\ UNCHANGED restVars

\* socket.on('turn_ready')
TurnReady ==
    /\ socket = "connected"
    /\ canSpeak' = IF ~heygenEnabled \/ ~awaitingAvatarTask THEN TRUE ELSE canSpeak
    /\ UNCHANGED <<recording, transcript, isDone, finishedMessage, isConnecting,
                   interviewStarted, isPressing, creatingSession, avatarStatus,
                   heygenToken, syncedTranscript, preparing, step,
                   refVars, pcVars, outVars>>
    /\ UNCHANGED restVars

\* socket.on('ai_audio_chunk'); valid = Buffer.from(msg.base64) does not throw
AiAudioChunk(valid) ==
    /\ socket = "connected"
    /\ ttsChunks < MaxChunks
    /\ ttsChunks' = IF ~heygenEnabled /\ valid THEN ttsChunks + 1 ELSE ttsChunks
    /\ UNCHANGED <<stateVars, socket, streaming, ttsFlushTimer,
                   isAssistantSpeaking, avatarReady, pendingSpeakQueue,
                   heygenEnabled, avatarSessionId, lastSpokenText, lastSpeakAge,
                   awaitingAvatarTask, pendingAssistantText, typeTimer, typeInfo,
                   pcVars, outVars>>
    /\ UNCHANGED restVars

\* the part of flushTTSBuffer() up to its await of writeAsStringAsync:
\* the chunks are taken, the debounce timer is cleared, and if there is audio
\* one more file write is pending
FlushTTSBuffer ==
    /\ ttsChunks' = 0
    /\ ttsFlushTimer' = FALSE
    /\ flushPending' = IF ttsChunks > 0 THEN flushPending + 1 ELSE flushPending
    /\ flushPending' <= MaxInflight

\* an ai_audio_done handler without the avatar check of its first line
AiAudioDoneUnguarded ==
    /\ socket = "connected"
    /\ FlushTTSBuffer /\ canSpeak' = TRUE
    /\ UNCHANGED <<recording, transcript, isDone, finishedMessage, isConnecting,
                   interviewStarted, isPressing, creatingSession, avatarStatus,
                   heygenToken, syncedTranscript, preparing, step,
                   socket, streaming, isAssistantSpeaking, avatarReady,
                   pendingSpeakQueue, heygenEnabled, avatarSessionId,
                   lastSpokenText, lastSpeakAge, awaitingAvatarTask,
                   pendingAssistantText, typeTimer, typeInfo,
                   mountPc, flowPc, pressInPending, pressOutPending,
                   playbackTimers, outVars>>
    /\ UNCHANGED restVars

\* socket.on('ai_audio_done')
AiAudioDone ==
    /\ socket = "connected"
    /\ IF heygenEnabled
         THEN UNCHANGED <<ttsChunks, ttsFlushTimer, flushPending, canSpeak>>
         ELSE FlushTTSBuffer /\ canSpeak' = TRUE
    /\ UNCHANGED <<recording, transcript, isDone, finishedMessage, isConnecting,
                   interviewStarted, isPressing, creatingSession, avatarStatus,
                   heygenToken, syncedTranscript, preparing, step,
                   socket, streaming, isAssistantSpeaking, avatarReady,
                   pendingSpeakQueue, heygenEnabled, avatarSessionId,
                   lastSpokenText, lastSpeakAge, awaitingAvatarTask,
                   pendingAssistantText, typeTimer, typeInfo,
                   mountPc, flowPc, pressInPending, pressOutPending,
                   playbackTimers, outVars>>
    /\ UNCHANGED restVars

\* socket.on('tts')
Tts(valid) ==
    /\ socket = "connected"
    /\ ttsChunks < MaxChunks
    /\ IF heygenEnabled
         THEN UNCHANGED <<ttsChunks, ttsFlushTimer>>
         ELSE /\ ttsChunks' = IF valid THEN ttsChunks + 1 ELSE ttsChunks
              /\ ttsFlushTimer' = TRUE
    /\ UNCHANGED <<stateVars, socket, streaming, isAssistantSpeaking,
                   avatarReady, pendingSpeakQueue, heygenEnabled,
                   avatarSessionId, lastSpokenText, lastSpeakAge,
                   awaitingAvatarTask, pendingAssistantText, typeTimer, typeInfo,
                   pcVars, outVars>>
    /\ UNCHANGED restVars

\* the 600 ms debounce timer set by 'tts' fires: flushTTSBuffer()
TtsFlushTimeout ==
    /\ ttsFlushTimer
    /\ FlushTTSBuffer
    /\ UNCHANGED <<stateVars, socket, streaming, isAssistantSpeaking,
                   avatarReady, pendingSpeakQueue, heygenEnabled,
                   avatarSessionId, lastSpokenText, lastSpeakAge,
                   awaitingAvatarTask, pendingAssistantText, typeTimer, typeInfo,
                   mountPc, flowPc, pressInPending, pressOutPending,
                   playbackTimers, outVars>>
    /\ UNCHANGED restVars

\* flushTTSBuffer() after its await: the file is written (ok) and playback
\* starts, or the write rejected and the function ends
FlushWritten(ok) ==
    /\ flushPending > 0
    /\ flushPending' = flushPending - 1
    /\ IF ok
         THEN /\ isAssistantSpeaking' = TRUE
              /\ playbackTimers' = playbackTimers + 1
              /\ playbackTimers' <= MaxInflight
         ELSE UNCHANGED <<isAssistantSpeaking, playbackTimers>>
    /\ UNCHANGED <<stateVars, socket, streaming, ttsChunks, ttsFlushTimer,
                   avatarReady, pendingSpeakQueue, heygenEnabled,
                   avatarSessionId, lastSpokenText, lastSpeakAge,
                   awaitingAvatarTask, pendingAssistantText, typeTimer, typeInfo,
                   mountPc, flowPc, pressInPending, pressOutPending, outVars>>
    /\ UNCHANGED restVars

\* a playback timeout that also reopens the mic
PlaybackTimeoutReopensMic ==
    /\ playbackTimers > 0
    /\ playbackTimers' = playbackTimers - 1
    /\ isAssistantSpeaking' = FALSE
    /\ canSpeak' = TRUE
    /\ UNCHANGED <<recording, transcript, isDone, finishedMessage, isConnecting,
                   interviewStarted, isPressing, creatingSession, avatarStatus,
                   heygenToken, syncedTranscript, preparing, step,
                   socket, streaming, ttsChunks, ttsFlushTimer,
                   avatarReady, pendingSpeakQueue, heygenEnabled,
                   avatarSessionId, lastSpokenText, lastSpeakAge,
                   awaitingAvatarTask, pendingAssistantText, typeTimer, typeInfo,
                   mountPc, flowPc, pressInPending, pressOutPending,
                   flushPending, outVars>>
    /\ UNCHANGED restVars

\* the setTimeout(estimatedMs) of a playback fires
PlaybackTimeout ==
    /\ playbackTimers > 0
    /\ playbackTimers' = playbackTimers - 1
    /\ isAssistantSpeaking' = FALSE
    /\ UNCHANGED <<stateVars, socket, streaming, ttsChunks, ttsFlushTimer,
                   avatarReady, pendingSpeakQueue, heygenEnabled,
                   avatarSessionId, lastSpokenText, lastSpeakAge,
                   awaitingAvatarTask, pendingAssistantText, typeTimer, typeInfo,
                   mountPc, flowPc, pressInPending, pressOutPending,
                   flushPending, outVars>>
    /\ UNCHANGED restVars

----------------------------------------------------------------------------
(* Messages of the embedded avatar player (WebView onMessage)              *)

\* What the handler's regular expressions see in a message line:
\*   sid   /^session_id:/            ready  /sdk ready|unmuted|video track|STREAM_READY/i
\*   task  "ok" /^TASK_OK:/i  "done" /^TASK_DONE$/i  "error" /^TASK_ERROR:/i
\*         "conn" /ws error|ws close|start err|create session err/i  (else-if chain)
\*   dur   parseInt of the text after the first ':' (0 when it is not a number)
\* The anchored patterns exclude each other; the unanchored ones can match
\* the same line.
AvatarDurations == {0, 2 * TickMs}

AvatarMessages ==
    {m \in [sid : BOOLEAN, ready : BOOLEAN,
            task : {"none", "ok", "done", "error", "conn"}, dur : AvatarDurations] :
        /\ m.sid => m.task \in {"none", "conn"}
        /\ m.task = "done" => ~m.ready
        /\ m.task # "ok" => m.dur = 0}

\* a detach that forgets to switch the avatar off
DetachKeepsAvatar ==
    /\ avatarReady' = FALSE
    /\ awaitingAvatarTask' = FALSE
    /\ detached' = TRUE
    /\ UNCHANGED <<heygenEnabled, heygenToken>>

\* detachFromHeygen(), the cells other than typeTimer
DetachFromHeygen ==
    /\ heygenEnabled' = FALSE
    /\ heygenToken' = FALSE
    /\ avatarReady' = FALSE
    /\ awaitingAvatarTask' = FALSE
    /\ detached' = TRUE

\* startTypewriter(text, durationMs)
StartTypewriter(text, durationMs) ==
    IF text = <<>>
      THEN syncedTranscript' = <<>> /\ UNCHANGED <<typeTimer, typeInfo>>
      ELSE /\ typeInfo' = [text |-> text,
                           duration |-> Max(TYPE_MIN_MS, Min(TYPE_MAX_MS, durationMs)),
                           elapsed |-> 0]
           /\ syncedTranscript' = <<>>
           /\ typeTimer' = TRUE

\* onMessage(m)
AvatarMessage(m) ==
    /\ WebViewMounted
    /\ avatarSessionId' = (avatarSessionId \/ m.sid)
    /\ LET ready2 == avatarReady \/ m.ready
           ready3 == IF m.task \in {"error", "conn"} THEN FALSE ELSE ready2
           sp2 == IF m.ready THEN FlushPendingSpeaks(Speaker, TRUE, TRUE) ELSE Speaker
           flushed == m.ready \/ (m.sid /\ ready3)
           sp4 == IF m.sid /\ ready3 /\ ~m.ready
                    THEN FlushPendingSpeaks(sp2, TRUE, TRUE) ELSE sp2
       IN /\ lastSpokenText' = sp4.last
          /\ lastSpeakAge' = sp4.age
          /\ speakCount' = sp4.count
          /\ speakCount' <= MaxSpeaks
          /\ avatarStatus' = sp4.status
          /\ speaksOutstanding' =
                CASE m.task = "done" ->
                       Max(0, speaksOutstanding + (sp4.count - speakCount) - 1)
                  [] m.task \in {"error", "conn"} -> 0
                  [] OTHER -> speaksOutstanding + (sp4.count - speakCount)
          /\ pendingSpeakQueue' = IF flushed THEN <<>> ELSE pendingSpeakQueue
          /\ CASE m.task = "ok" ->
                    /\ awaitingAvatarTask' = TRUE
                    /\ canSpeak' = FALSE
                    /\ StartTypewriter(pendingAssistantText, m.dur)
                    /\ avatarReady' = ready2
                    /\ UNCHANGED <<heygenEnabled, heygenToken, detached>>
               [] m.task = "done" ->
                    /\ awaitingAvatarTask' = FALSE
                    /\ canSpeak' = TRUE
                    /\ typeTimer' = FALSE
                    /\ syncedTranscript' = OrElse(pendingAssistantText, syncedTranscript)
                    /\ avatarReady' = ready2
                    /\ UNCHANGED <<heygenEnabled, heygenToken, typeInfo, detached>>
               [] m.task \in {"error", "conn"} ->
                    /\ DetachFromHeygen
                    /\ typeTimer' = FALSE
                    /\ canSpeak' = TRUE
                    /\ UNCHANGED <<syncedTranscript, typeInfo>>
               [] OTHER ->
                    /\ avatarReady' = ready2
                    /\ UNCHANGED <<awaitingAvatarTask, canSpeak, typeTimer,
                                   syncedTranscript, heygenEnabled, heygenToken,
                                   typeInfo, detached>>
    /\ UNCHANGED <<recording, transcript, isDone, finishedMessage, isConnecting,
                   interviewStarted, isPressing, creatingSession, preparing, step,
                   socket, streaming, ttsChunks, ttsFlushTimer,
                   isAssistantSpeaking, pendingAssistantText,
                   pcVars, recorderState, held, startEmitted, emittedAudio,
                   alertCount>>
    /\ UNCHANGED <<mounted, otherScreens>>

\* one run of the typewriter's setInterval callback
TypewriterTick ==
    /\ typeTimer
    /\ LET info == typeInfo
           chars == Max(1, (Len(info.text) * Min(info.elapsed, info.duration))
                               \div info.duration)
       IN /\ syncedTranscript' = Slice(info.text, chars)
          /\ typeTimer' = (info.elapsed < info.duration)
    /\ UNCHANGED <<recording, transcript, isDone, finishedMessage, isConnecting,
                   interviewStarted, isPressing, creatingSession, avatarStatus,
                   heygenToken, canSpeak, preparing, step,
                   socket, streaming, ttsChunks, ttsFlushTimer,
                   isAssistantSpeaking, avatarReady, pendingSpeakQueue,
                   heygenEnabled, avatarSessionId, lastSpokenText, lastSpeakAge,
                   awaitingAvatarTask, pendingAssistantText, typeInfo,
                   pcVars, outVars>>
    /\ UNCHANGED restVars

\* Date.now() advances by TickMs.  The two ages the component compares with
\* the clock are kept relative to it and saturate where the comparison no
\* longer changes; the typewriter's age is advanced while its interval runs.
Tick ==
    /\ lastSpeakAge' = Min(lastSpeakAge + TickMs, DEDUP_WINDOW_MS)
    /\ typeInfo' = IF typeTimer
                     THEN [typeInfo EXCEPT !.elapsed =
                              Min(typeInfo.elapsed + TickMs, typeInfo.duration)]
                     ELSE typeInfo   \* read only by the interval callback
    /\ (lastSpeakAge' # lastSpeakAge \/ typeInfo' # typeInfo)
    /\ UNCHANGED <<stateVars, socket, streaming, ttsChunks, ttsFlushTimer,
                   isAssistantSpeaking, avatarReady, pendingSpeakQueue,
                   heygenEnabled, avatarSessionId, lastSpokenText,
                   awaitingAvatarTask, pendingAssistantText, typeTimer,
                   pcVars, outVars>>
    /\ UNCHANGED restVars

----------------------------------------------------------------------------
(* Push-to-talk                                                            *)

\* base64 lengths of a captured turn (0: recorder.uri is empty or the file is)
AudioSizes == {0, MIN_AUDIO_B64, MIN_AUDIO_B64 + 1}

\* pressIn(), up to its await of recorder.prepareToRecordAsync()
PressIn ==
    /\ MicEnabled
    /\ ~held
    /\ held' = TRUE
    /\ IF isAssistantSpeaking \/ awaitingAvatarTask
         THEN /\ canSpeak' = FALSE
              /\ UNCHANGED <<isPressing, pressInPending>>
         ELSE /\ isPressing' = TRUE
              /\ canSpeak' = canSpeak
              /\ pressInPending' =
                    IF interviewStarted /\ ~recording
                      THEN pressInPending + 1 ELSE pressInPending
              /\ pressInPending' <= MaxInflight
    /\ UNCHANGED <<recording, transcript, isDone, finishedMessage, isConnecting,
                   interviewStarted, creatingSession, avatarStatus, heygenToken,
                   syncedTranscript, preparing, step, refVars,
                   mountPc, flowPc, pressOutPending, flushPending,
                   playbackTimers, recorderState, startEmitted, emittedAudio,
                   speakCount, alertCount, detached>>
    /\ UNCHANGED restVars

\* pressIn() after its await: prepareToRecordAsync resolved and record() ran
\* (ok), or one of them threw and the catch swallowed it
PressInPrepared(ok) ==
    /\ pressInPending > 0
    /\ pressInPending' = pressInPending - 1
    /\ IF ok
         THEN /\ recorderState' = "recording"
              /\ recording' = TRUE
              /\ streaming' = TRUE
         ELSE UNCHANGED <<recorderState, recording, streaming>>
    /\ UNCHANGED <<transcript, isDone, finishedMessage, isConnecting,
                   interviewStarted, isPressing, creatingSession, avatarStatus,
                   heygenToken, canSpeak, syncedTranscript, preparing, step,
                   socket, ttsChunks, ttsFlushTimer, isAssistantSpeaking,
                   avatarReady, pendingSpeakQueue, heygenEnabled,
                   avatarSessionId, lastSpokenText, lastSpeakAge,
                   awaitingAvatarTask, pendingAssistantText, typeTimer, typeInfo,
                   mountPc, flowPc, pressOutPending, flushPending,
                   playbackTimers, held, startEmitted, emittedAudio, speakCount,
                   alertCount, detached>>
    /\ UNCHANGED restVars

\* pressOut() without its  if (!recording) return
PressOutNoGuard ==
    /\ held
    /\ held' = FALSE
    /\ streaming' = FALSE
    /\ isPressing' = FALSE
    /\ recorderState' = "idle"
    /\ pressOutPending' = pressOutPending + 1
    /\ pressOutPending' <= MaxInflight
    /\ UNCHANGED <<recording, transcript, isDone, finishedMessage, isConnecting,
                   interviewStarted, creatingSession, avatarStatus, heygenToken,
                   canSpeak, syncedTranscript, preparing, step,
                   socket, ttsChunks, ttsFlushTimer, isAssistantSpeaking,
                   avatarReady, pendingSpeakQueue, heygenEnabled,
                   avatarSessionId, lastSpokenText, lastSpeakAge,
                   awaitingAvatarTask, pendingAssistantText, typeTimer, typeInfo,
                   mountPc, flowPc, pressInPending, flushPending, playbackTimers,
                   startEmitted, emittedAudio, speakCount, alertCount, detached>>
    /\ UNCHANGED restVars

\* the finger leaves the mic button: pressOut(), up to its await of
\* recorder.stop()
PressOut ==
    /\ held
    /\ held' = FALSE
    /\ IF ~recording
         THEN UNCHANGED <<streaming, isPressing, recorderState, pressOutPending>>
         ELSE /\ streaming' = FALSE
              /\ isPressing' = FALSE
              /\ recorderState' = "idle"
              /\ pressOutPending' = pressOutPending + 1
              /\ pressOutPending' <= MaxInflight
    /\ UNCHANGED <<recording, transcript, isDone, finishedMessage, isConnecting,
                   interviewStarted, creatingSession, avatarStatus, heygenToken,
                   canSpeak, syncedTranscript, preparing, step,
                   socket, ttsChunks, ttsFlushTimer, isAssistantSpeaking,
                   avatarReady, pendingSpeakQueue, heygenEnabled,
                   avatarSessionId, lastSpokenText, lastSpeakAge,
                   awaitingAvatarTask, pendingAssistantText, typeTimer, typeInfo,
                   mountPc, flowPc, pressInPending, flushPending, playbackTimers,
                   startEmitted, emittedAudio, speakCount, alertCount, detached>>
    /\ UNCHANGED restVars

\* pressOut() emitting whatever was captured, as long as it is not empty
PressOutStoppedNoThreshold(thrown, size) ==
    /\ pressOutPending > 0
    /\ pressOutPending' = pressOutPending - 1
    /\ emittedAudio' =
          IF ~thrown /\ size > 0 THEN emittedAudio \cup {size} ELSE emittedAudio
    /\ recording' = FALSE
    /\ UNCHANGED <<transcript, isDone, finishedMessage, isConnecting,
                   interviewStarted, isPressing, creatingSession, avatarStatus,
                   heygenToken, canSpeak, syncedTranscript, preparing, step,
                   refVars, mountPc, flowPc, pressInPending, flushPending,
                   playbackTimers, recorderState, held, startEmitted, speakCount,
                   alertCount, detached>>
    /\ UNCHANGED restVars

\* pressOut() after its awaits: the recording was read as base64 of length
\* size and is emitted if long enough; thrown = stop() or fetch() threw
PressOutStopped(thrown, size) ==
    /\ pressOutPending > 0
    /\ pressOutPending' = pressOutPending - 1
    /\ emittedAudio' =
          IF ~thrown /\ size > 0 /\ size > MIN_AUDIO_B64
            THEN emittedAudio \cup {size} ELSE emittedAudio
    /\ recording' = FALSE
    /\ UNCHANGED <<transcript, isDone, finishedMessage, isConnecting,
                   interviewStarted, isPressing, creatingSession, avatarStatus,
                   heygenToken, canSpeak, syncedTranscript, preparing, step,
                   refVars, mountPc, flowPc, pressInPending, flushPending,
                   playbackTimers, recorderState, held, startEmitted, speakCount,
                   alertCount, detached>>
    /\ UNCHANGED restVars

----------------------------------------------------------------------------
(* Starting the interview                                                  *)

\* a startRecording that marks the interview started and tells the server
\* nothing
StartRecordingSilent ==
    IF ~interviewStarted
      THEN interviewStarted' = TRUE /\ startEmitted' = startEmitted
      ELSE UNCHANGED <<interviewStarted, startEmitted>>

\* startRecording()
StartRecording ==
    IF ~interviewStarted
      THEN interviewStarted' = TRUE /\ startEmitted' = startEmitted + 1
      ELSE UNCHANGED <<interviewStarted, startEmitted>>

\* startInterviewFlow(), up to its await of api.getHeygenToken()
StartInterviewFlow ==
    /\ StartButtonEnabled
    /\ flowPc' = "token"
    /\ step' = 2
    /\ preparing' = TRUE
    /\ creatingSession' = TRUE
    /\ avatarStatus' = "fetching sdk token"
    /\ UNCHANGED <<recording, transcript, isDone, finishedMessage, isConnecting,
                   interviewStarted, isPressing, heygenToken, canSpeak,
                   syncedTranscript, refVars, mountPc, pressInPending,
                   pressOutPending, flushPending, playbackTimers, outVars>>
    /\ UNCHANGED restVars

\* getHeygenToken() settled: "ok" a token, "none" no token, "throw" rejected
TokenResult(r) ==
    /\ flowPc = "token"
    /\ creatingSession' = FALSE
    /\ IF r = "ok"
         THEN /\ heygenToken' = TRUE
              /\ avatarStatus' = "waiting for avatar ready + session id"
              /\ avatarReady' = FALSE
              /\ heygenEnabled' = TRUE
              /\ flowPc' = "poll"
              /\ UNCHANGED <<interviewStarted, startEmitted, preparing>>
         ELSE /\ heygenEnabled' = FALSE
              /\ heygenToken' = FALSE
              /\ StartRecording
              /\ preparing' = FALSE
              /\ flowPc' = "done"
              /\ UNCHANGED <<avatarStatus, avatarReady>>
    /\ UNCHANGED <<recording, transcript, isDone, finishedMessage, isConnecting,
                   isPressing, canSpeak, syncedTranscript, step,
                   socket, streaming, ttsChunks, ttsFlushTimer,
                   isAssistantSpeaking, pendingSpeakQueue, avatarSessionId,
                   lastSpokenText, lastSpeakAge, awaitingAvatarTask,
                   pendingAssistantText, typeTimer, typeInfo,
                   mountPc, pressInPending, pressOutPending, flushPending,
                   playbackTimers, recorderState, held, emittedAudio, speakCount,
                   alertCount, detached>>
    /\ UNCHANGED restVars

\* a poll loop whose timeout gives up instead of falling back
PollExitNoFallback ==
    /\ flowPc = "poll"
    /\ flowPc' = "done"
    /\ IF avatarReady /\ avatarSessionId
         THEN StartRecording /\ UNCHANGED <<heygenEnabled, heygenToken>>
         ELSE UNCHANGED <<heygenEnabled, heygenToken, interviewStarted,
                          startEmitted>>
    /\ preparing' = FALSE
    /\ UNCHANGED <<recording, transcript, isDone, finishedMessage, isConnecting,
                   isPressing, creatingSession, avatarStatus, canSpeak,
                   syncedTranscript, step,
                   socket, streaming, ttsChunks, ttsFlushTimer,
                   isAssistantSpeaking, avatarReady, pendingSpeakQueue,
                   avatarSessionId, lastSpokenText, lastSpeakAge,
                   awaitingAvatarTask, pendingAssistantText, typeTimer, typeInfo,
                   mountPc, pressInPending, pressOutPending, flushPending,
                   playbackTimers, recorderState, held, emittedAudio, speakCount,
                   alertCount, detached>>
    /\ UNCHANGED restVars

\* the poll loop ends: the avatar is ready with a session id, or the 45 s
\* have passed without that
PollExit ==
    /\ flowPc = "poll"
    /\ flowPc' = "done"
    /\ IF avatarReady /\ avatarSessionId
         THEN UNCHANGED <<heygenEnabled, heygenToken>>
         ELSE heygenEnabled' = FALSE /\ heygenToken' = FALSE
    /\ StartRecording
    /\ preparing' = FALSE
    /\ UNCHANGED <<recording, transcript, isDone, finishedMessage, isConnecting,
                   isPressing, creatingSession, avatarStatus, canSpeak,
                   syncedTranscript, step,
                   socket, streaming, ttsChunks, ttsFlushTimer,
                   isAssistantSpeaking, avatarReady, pendingSpeakQueue,
                   avatarSessionId, lastSpokenText, lastSpeakAge,
                   awaitingAvatarTask, pendingAssistantText, typeTimer, typeInfo,
                   mountPc, pressInPending, pressOutPending, flushPending,
                   playbackTimers, recorderState, held, emittedAudio, speakCount,
                   alertCount, detached>>
    /\ UNCHANGED restVars

----------------------------------------------------------------------------
(* The check-in session: groups of steps                                   *)

SessionTexts == {<<>>, <<"a">>}

MountNext ==
    \/ \E status \in {"granted", "denied"} : PermissionResult(status)
    \/ \E ok \in BOOLEAN : SocketSetup(ok)
    \/ SocketConnect
    \/ ContinueToCheckIn

EndNext ==
    \/ SocketDone
    \/ SocketDisconnect
    \/ SocketError

TurnNext ==
    \/ \E t \in SessionTexts : AssistantTextDelta(t)
    \/ \E t \in SessionTexts : FinalTranscript(t)
    \/ TurnReady
    \/ AiAudioDone

TtsNext ==
    \/ \E valid \in BOOLEAN : AiAudioChunk(valid)
    \/ \E valid \in BOOLEAN : Tts(valid)
    \/ TtsFlushTimeout
    \/ \E ok \in BOOLEAN : FlushWritten(ok)
    \/ PlaybackTimeout

AvatarNext ==
    \/ \E m \in AvatarMessages : AvatarMessage(m)
    \/ TypewriterTick
    \/ Tick

MicNext ==
    \/ PressIn
    \/ \E ok \in BOOLEAN : PressInPrepared(ok)
    \/ PressOut
    \/ \E thrown \in BOOLEAN, size \in AudioSizes : PressOutStopped(thrown, size)

FlowNext ==
    \/ StartInterviewFlow
    \/ \E r \in {"ok", "none", "throw"} : TokenResult(r)
    \/ PollExit

\* a flow in which the avatar token request gives no token
FlowNoAvatar ==
    \/ StartInterviewFlow
    \/ \E r \in {"none", "throw"} : TokenResult(r)

\* a flow in which the avatar token request gives a token
FlowAvatar ==
    \/ StartInterviewFlow
    \/ TokenResult("ok")
    \/ PollExit

(* The whole session *)
Next ==
    \/ MountNext \/ EndNext \/ TurnNext \/ TtsNext \/ AvatarNext \/ MicNext
    \/ FlowNext

Spec == Init /\ [][Next]_vars

(* A session without avatar: local TTS playback and push-to-talk *)
NextTts ==
    \/ MountNext \/ EndNext \/ TurnNext \/ TtsNext \/ MicNext \/ FlowNoAvatar

SpecTts == Init /\ [][NextTts]_vars

(* A session with the avatar attached, detached or timed out *)
NextAvatar ==
    \/ MountNext \/ TurnNext \/ AvatarNext \/ MicNext \/ FlowAvatar

SpecAvatar == Init /\ [][NextAvatar]_vars

(* The duplicate guard of the avatar speech, with every text of up to      *)
(* MaxText characters                                                      *)
SpeakTexts == TextsUpTo(MaxText)

\* player lines that carry readiness or a session id and no task report
ReadinessMessages == {m \in AvatarMessages : m.task = "none"}

NextSpeak ==
    \/ MountNext
    \/ FlowAvatar
    \/ \E t \in SpeakTexts : FinalTranscript(t)
    \/ \E m \in ReadinessMessages : AvatarMessage(m)
    \/ Tick

SpecSpeak == Init /\ [][NextSpeak]_vars

(* Starting the interview, with or without avatar.  The token request       *)
(* settles (axios gives up after 30 s) and the poll loop ends (45 s).       *)
NextFlow ==
    \/ MountNext \/ EndNext \/ FlowNext
    \/ TurnReady
    \/ AiAudioDone
    \/ \E m \in AvatarMessages : AvatarMessage(m)

SpecFlow ==
    /\ Init /\ [][NextFlow]_vars
    /\ WF_vars(\E r \in {"ok", "none", "throw"} : TokenResult(r))
    /\ WF_vars(PollExit)

(* Legacy TTS events in a session that may or may not get the avatar *)
NextLegacy ==
    \/ MountNext \/ FlowNext \/ TtsNext
    \/ AiAudioDone

SpecLegacy == Init /\ [][NextLegacy]_vars

(* Turns of an avatar session in which the player answers every speak it   *)
(* received with TASK_DONE or TASK_ERROR and the server's turn_ready        *)
(* arrives                                                                  *)

\* the player reports progress of a speak it received: TASK_OK:<ms>
AvatarTaskOk ==
    /\ speaksOutstanding > 0
    /\ \E m \in AvatarMessages : m.task = "ok" /\ AvatarMessage(m)

\* the player ends a speak it received: TASK_DONE or TASK_ERROR:<reason>
AvatarAnswers ==
    /\ speaksOutstanding > 0
    /\ \E m \in AvatarMessages : m.task \in {"done", "error"} /\ AvatarMessage(m)

NextMicLive ==
    \/ MountNext
    \/ FlowAvatar
    \/ SocketDone
    \/ \E t \in SessionTexts : AssistantTextDelta(t)
    \/ \E t \in SessionTexts : FinalTranscript(t)
    \/ TurnReady
    \/ \E m \in ReadinessMessages : AvatarMessage(m)
    \/ AvatarTaskOk
    \/ AvatarAnswers
    \/ Tick

SpecMicLive ==
    /\ Init /\ [][NextMicLive]_vars
    /\ WF_vars(AvatarAnswers)
    /\ WF_vars(TurnReady)

(* Leaving the screen at any moment of a session *)
NextTeardown ==
    \/ MountNext \/ FlowNext
    \/ \E t \in SessionTexts : AssistantTextDelta(t)
    \/ \E valid \in BOOLEAN : Tts(valid)
    \/ TtsFlushTimeout
    \/ \E ok \in BOOLEAN : FlushWritten(ok)
    \/ PlaybackTimeout
    \/ \E m \in AvatarMessages : AvatarMessage(m)
    \/ TypewriterTick
    \/ Unmount

SpecTeardown == Init /\ [][NextTeardown]_vars

----------------------------------------------------------------------------
(* Appointments screen: availability, optimistic booking and its rollback  *)

\* what api.getDoctorAvailability(doctorId, d, 30) returns: the free slots of
\* day d in time order
DaySlots(d) == SelectSeq([t \in Times |-> <<d, t>>], LAMBDA x : x \in serverFree)

\* list.filter(s => s.startTime.getTime() !== slot.startTime.getTime())
WithoutSlot(list, slot) == SelectSeq(list, LAMBDA x : x # slot)

\* a slot row, the date navigator and the month grid are rendered below the
\* header once the appointment list has loaded, and the type modal covers them
CalendarShown == ~loading /\ ~typeModalVisible

\* loadMyAppointments() settles; ok = the response carries the list
AppointmentsLoaded(ok) ==
    /\ apptLoads > 0
    /\ apptLoads' = apptLoads - 1
    /\ appointments' = IF ok THEN AllSlots \ serverFree ELSE appointments
    /\ loading' = FALSE
    /\ UNCHANGED <<booking, doctorId, selectedDate, slots, typeModalVisible,
                   pendingSlot, currentMonth, monthSlots, monthKeys, dayLoads, monthLoads,
                   bookCall, refreshTimer, serverFree, apptAlerts, attempts,
                   slotsBefore, monthBefore>>
    /\ UNCHANGED <<checkInVars, examVars, sharedVars>>

\* api.getClinicians() of the mount effect returns a clinician: doctorId is
\* set and the two availability effects run
CliniciansLoaded ==
    /\ ~doctorId
    /\ doctorId' = TRUE
    /\ dayLoads' = dayLoads \cup {selectedDate}
    /\ monthLoads' = monthLoads \cup {currentMonth}
    /\ UNCHANGED <<appointments, loading, booking, selectedDate, slots,
                   typeModalVisible, pendingSlot, currentMonth, monthSlots, monthKeys,
                   apptLoads, bookCall, refreshTimer, serverFree, apptAlerts,
                   attempts, slotsBefore, monthBefore>>
    /\ UNCHANGED <<checkInVars, examVars, sharedVars>>

\* a day is picked in the month grid or with the date navigator
SelectDate(d) ==
    /\ CalendarShown
    /\ d # selectedDate
    /\ selectedDate' = d
    /\ dayLoads' = IF doctorId THEN dayLoads \cup {d} ELSE dayLoads
    /\ UNCHANGED <<appointments, loading, booking, doctorId, slots,
                   typeModalVisible, pendingSlot, currentMonth, monthSlots, monthKeys,
                   apptLoads, monthLoads, bookCall, refreshTimer, serverFree,
                   apptAlerts, attempts, slotsBefore, monthBefore>>
    /\ UNCHANGED <<checkInVars, examVars, sharedVars>>

\* changeMonth(direction)
ChangeMonth(m) ==
    /\ CalendarShown
    /\ m # currentMonth
    /\ currentMonth' = m
    /\ monthLoads' = IF doctorId THEN monthLoads \cup {m} ELSE monthLoads
    /\ UNCHANGED <<appointments, loading, booking, doctorId, selectedDate,
                   slots, typeModalVisible, pendingSlot, monthSlots, monthKeys, apptLoads,
                   dayLoads, bookCall, refreshTimer, serverFree, apptAlerts,
                   attempts, slotsBefore, monthBefore>>
    /\ UNCHANGED <<checkInVars, examVars, sharedVars>>

\* loadAvailability() called for day d settles
DayLoadDone(d, ok) ==
    /\ d \in dayLoads
    /\ dayLoads' = dayLoads \ {d}
    /\ slots' = IF ok THEN DaySlots(d) ELSE slots
    /\ UNCHANGED <<appointments, loading, booking, doctorId, selectedDate,
                   typeModalVisible, pendingSlot, currentMonth, monthSlots, monthKeys,
                   apptLoads, monthLoads, bookCall, refreshTimer, serverFree,
                   apptAlerts, attempts, slotsBefore, monthBefore>>
    /\ UNCHANGED <<checkInVars, examVars, sharedVars>>

\* loadMonthAvailability() called for month m has asked for each of its days
\* and replaces the cache
MonthLoadDone(m) ==
    /\ m \in monthLoads
    /\ monthLoads' = monthLoads \ {m}
    /\ monthSlots' = [d \in Dates |-> IF MonthOf(d) = m THEN DaySlots(d) ELSE <<>>]
    /\ monthKeys' = {d \in Dates : MonthOf(d) = m /\ DaySlots(d) # <<>>}
    /\ UNCHANGED <<appointments, loading, booking, doctorId, selectedDate,
                   slots, typeModalVisible, pendingSlot, currentMonth, apptLoads,
                   dayLoads, bookCall, refreshTimer, serverFree, apptAlerts,
                   attempts, slotsBefore, monthBefore>>
    /\ UNCHANGED <<checkInVars, examVars, sharedVars>>

\* book(slot): a slot row is pressed
Book(slot) ==
    /\ CalendarShown /\ doctorId /\ ~booking
    /\ \E i \in 1..Len(slots) : slots[i] = slot
    /\ pendingSlot' = slot
    /\ typeModalVisible' = TRUE
    /\ UNCHANGED <<appointments, loading, booking, doctorId, selectedDate,
                   slots, currentMonth, monthSlots, monthKeys, apptLoads, dayLoads,
                   monthLoads, bookCall, refreshTimer, serverFree, apptAlerts,
                   attempts, slotsBefore, monthBefore>>
    /\ UNCHANGED <<checkInVars, examVars, sharedVars>>

\* Cancel of the type modal
CancelBook ==
    /\ typeModalVisible
    /\ typeModalVisible' = FALSE
    /\ pendingSlot' = <<0, 0>>
    /\ UNCHANGED <<appointments, loading, booking, doctorId, selectedDate,
                   slots, currentMonth, monthSlots, monthKeys, apptLoads, dayLoads,
                   monthLoads, bookCall, refreshTimer, serverFree, apptAlerts,
                   attempts, slotsBefore, monthBefore>>
    /\ UNCHANGED <<checkInVars, examVars, sharedVars>>

\* a confirmBook that stores the filtered list under the date even when it
\* is empty
ConfirmBookKeepsKey ==
    /\ typeModalVisible /\ pendingSlot # <<0, 0>> /\ doctorId
    /\ attempts < MaxAttempts
    /\ attempts' = attempts + 1
    /\ typeModalVisible' = FALSE
    /\ pendingSlot' = <<0, 0>>
    /\ booking' = TRUE
    /\ slotsBefore' = slots
    /\ monthBefore' = monthSlots[selectedDate]
    /\ slots' = WithoutSlot(slots, pendingSlot)
    /\ monthSlots' = [monthSlots EXCEPT
                         ![selectedDate] = WithoutSlot(@, pendingSlot)]
    /\ monthKeys' = monthKeys
    /\ bookCall' = [slot |-> pendingSlot, date |-> selectedDate,
                    month |-> currentMonth]
    /\ UNCHANGED <<appointments, loading, doctorId, selectedDate, currentMonth,
                   apptLoads, dayLoads, monthLoads, refreshTimer, serverFree,
                   apptAlerts>>
    /\ UNCHANGED <<checkInVars, examVars, sharedVars>>

\* Confirm of the type modal: confirmBook(pendingSlot, selectedType) up to its
\* await of api.bookAppointment()
ConfirmBook ==
    /\ typeModalVisible /\ pendingSlot # <<0, 0>> /\ doctorId
    /\ attempts < MaxAttempts
    /\ attempts' = attempts + 1
    /\ typeModalVisible' = FALSE
    /\ pendingSlot' = <<0, 0>>
    /\ booking' = TRUE
    /\ slotsBefore' = slots
    /\ monthBefore' = monthSlots[selectedDate]
    /\ slots' = WithoutSlot(slots, pendingSlot)
    /\ monthSlots' = [monthSlots EXCEPT
                         ![selectedDate] = WithoutSlot(@, pendingSlot)]
    /\ monthKeys' = IF WithoutSlot(monthSlots[selectedDate], pendingSlot) = <<>>
                       THEN monthKeys \ {selectedDate} ELSE monthKeys
    /\ bookCall' = [slot |-> pendingSlot, date |-> selectedDate,
                    month |-> currentMonth]
    /\ UNCHANGED <<appointments, loading, doctorId, selectedDate, currentMonth,
                   apptLoads, dayLoads, monthLoads, refreshTimer, serverFree,
                   apptAlerts>>
    /\ UNCHANGED <<checkInVars, examVars, sharedVars>>

\* api.bookAppointment() settles: "ok" success, "fail" a success=false
\* response, "throw" a rejected request; then the finally block
BookResult(r) ==
    /\ bookCall # NoCall
    /\ bookCall' = NoCall
    /\ booking' = FALSE
    /\ IF r = "ok"
         THEN /\ bookCall.slot \in serverFree
              /\ serverFree' = serverFree \ {bookCall.slot}
              /\ apptAlerts' = Append(apptAlerts, "Success")
              /\ refreshTimer' = refreshTimer \cup {bookCall}
              /\ UNCHANGED <<slots, monthSlots, monthKeys>>
         ELSE /\ slots' = Append(slots, bookCall.slot)
              /\ monthSlots' = [monthSlots EXCEPT
                                   ![bookCall.date] = Append(@, bookCall.slot)]
              /\ monthKeys' = monthKeys \cup {bookCall.date}
              /\ apptAlerts' = Append(apptAlerts, "Error")
              /\ UNCHANGED <<serverFree, refreshTimer>>
    /\ slotsBefore' = <<>>
    /\ monthBefore' = <<>>
    /\ UNCHANGED <<appointments, loading, doctorId, selectedDate,
                   typeModalVisible, pendingSlot, currentMonth, apptLoads,
                   dayLoads, monthLoads, attempts>>
    /\ UNCHANGED <<checkInVars, examVars, sharedVars>>

\* the 500 ms timer of a successful booking fires: loadMyAppointments(),
\* loadAvailability() and loadMonthAvailability() of the render that confirmed
RefreshFires(c) ==
    /\ c \in refreshTimer
    /\ refreshTimer' = refreshTimer \ {c}
    /\ loading' = TRUE
    /\ apptLoads' = apptLoads + 1
    /\ dayLoads' = dayLoads \cup {c.date}
    /\ monthLoads' = monthLoads \cup {c.month}
    /\ UNCHANGED <<appointments, booking, doctorId, selectedDate, slots,
                   typeModalVisible, pendingSlot, currentMonth, monthSlots, monthKeys,
                   bookCall, serverFree, apptAlerts, attempts, slotsBefore,
                   monthBefore>>
    /\ UNCHANGED <<checkInVars, examVars, sharedVars>>

BookingCalls == [slot : AllSlots, date : Dates, month : Months]

NextBooking ==
    \/ \E ok \in BOOLEAN : AppointmentsLoaded(ok)
    \/ CliniciansLoaded
    \/ \E d \in Dates : SelectDate(d)
    \/ \E m \in Months : ChangeMonth(m)
    \/ \E d \in Dates, ok \in BOOLEAN : DayLoadDone(d, ok)
    \/ \E m \in Months : MonthLoadDone(m)
    \/ \E slot \in AllSlots : Book(slot)
    \/ CancelBook
    \/ ConfirmBook
    \/ \E r \in {"ok", "fail", "throw"} : BookResult(r)
    \/ \E c \in BookingCalls : RefreshFires(c)

\* requests settle (axios gives up after its 30 s timeout) and the 500 ms
\* timer fires
SpecBooking ==
    /\ Init /\ [][NextBooking]_vars
    /\ WF_vars(\E c \in BookingCalls : RefreshFires(c))
    /\ WF_vars(\E r \in {"ok", "fail", "throw"} : BookResult(r))

----------------------------------------------------------------------------
(* Exam detail screen: the optimistic status toggle                        *)

\* api.getExam(examId) of the mount effect settles: with an exam of status r,
\* with no exam ("none"), or rejected ("throw"); then the finally block
FetchExamDone(r) ==
    /\ fetchPending
    /\ fetchPending' = FALSE
    /\ isLoading' = FALSE
    /\ exam' = IF r \in ExamStatuses THEN r ELSE exam
    /\ serverStatus' = IF r \in ExamStatuses THEN r ELSE serverStatus
    /\ UNCHANGED <<toggleCalls, examAlerts, toggles>>
    /\ UNCHANGED <<checkInVars, apptVars, sharedVars>>

\* handleToggleStatus(), up to its await of api.updateExamStatus(): the
\* status is flipped on screen and the request carries the new status; the
\* closure keeps the exam it was called with
HandleToggleStatus ==
    /\ ~isLoading /\ exam # "null"
    /\ toggles < MaxToggles
    /\ toggles' = toggles + 1
    /\ LET newStatus == IF exam = "completed" THEN "pending" ELSE "completed"
       IN /\ exam' = newStatus
          /\ toggleCalls' = Append(toggleCalls, [old |-> exam, new |-> newStatus])
    /\ UNCHANGED <<isLoading, fetchPending, serverStatus, examAlerts>>
    /\ UNCHANGED <<checkInVars, apptVars, sharedVars>>

\* ApiService.updateExamStatus: what the caller gets for each outcome of the
\* PATCH request ("ok", an "unsuccessful" response body, a "network" error).
\* Its own try/catch turns every failure into a returned success=false.
UpdateExamStatus(outcome) ==
    [success |-> (outcome = "ok"), thrown |-> FALSE]

RemoveAt(list, i) == SubSeq(list, 1, i - 1) \o SubSeq(list, i + 1, Len(list))

\* handleToggleStatus() after its await, for the i-th request in flight
ToggleSettled(i, outcome) ==
    /\ i \in 1..Len(toggleCalls)
    /\ LET call == toggleCalls[i]
           res == UpdateExamStatus(outcome)
       IN /\ serverStatus' = IF outcome = "ok" THEN call.new ELSE serverStatus
          /\ IF res.thrown
               THEN /\ exam' = IF exam # "null" THEN call.old ELSE exam
                    /\ examAlerts' = examAlerts + 1
               ELSE UNCHANGED <<exam, examAlerts>>
    /\ toggleCalls' = RemoveAt(toggleCalls, i)
    /\ UNCHANGED <<isLoading, fetchPending, toggles>>
    /\ UNCHANGED <<checkInVars, apptVars, sharedVars>>

FetchResults == ExamStatuses \cup {"none", "throw"}
UpdateOutcomes == {"ok", "unsuccessful", "network"}

NextExam ==
    \/ \E r \in FetchResults : FetchExamDone(r)
    \/ HandleToggleStatus
    \/ \E i \in 1..MaxToggles, o \in UpdateOutcomes : ToggleSettled(i, o)

SpecExam == Init /\ [][NextExam]_vars

----------------------------------------------------------------------------
(* Auth store and the API client's response interceptor                    *)

\* HTTP statuses of an answered API call; 0 stands for a call without a
\* response (network error or timeout: error.response is undefined)
Statuses == {0, 200, 401, 403, 404, 500}

\* how the two AsyncStorage.setItem calls of login / signup end
StoreOutcomes == {"ok", "tokenFails", "userFails"}

\* the mount effect of AuthProvider: setLogoutHandler(logout), checkAuthState()
AuthProviderMount ==
    /\ authPc = "unmounted"
    /\ logoutHandler' = "logout"
    /\ authPc' = "check"
    /\ UNCHANGED <<authUser, authToken, authLoading, storedToken, storedUser,
                   logoutsPending, handlerCalls, apiResult, apiCalls, inEffect>>
    /\ UNCHANGED outsideAuth

\* checkAuthState() settles; readOk = the two getItem calls resolved
CheckAuthState(readOk) ==
    /\ authPc = "check"
    /\ authPc' = "idle"
    /\ authLoading' = FALSE
    /\ IF readOk /\ storedToken # NoOne /\ storedUser # NoOne
         THEN authToken' = storedToken /\ authUser' = storedUser
         ELSE UNCHANGED <<authToken, authUser>>
    /\ UNCHANGED <<storedToken, storedUser, logoutHandler, logoutsPending,
                   handlerCalls, apiResult, apiCalls, inEffect>>
    /\ UNCHANGED outsideAuth

\* the body shared by login(newToken, newUser) and signup(newToken, newUser):
\* setItem(AUTH_TOKEN), setItem(USER_DATA), setToken, setUser; a rejected
\* setItem ends the function in its catch (rethrow)
StoreCredentials(acct, r) ==
    /\ storedToken' = IF r = "tokenFails" THEN storedToken ELSE acct
    /\ storedUser' = IF r = "ok" THEN acct ELSE storedUser
    /\ authToken' = IF r = "ok" THEN acct ELSE authToken
    /\ authUser' = IF r = "ok" THEN acct ELSE authUser

\* login(newToken, newUser)
Login(acct, r) ==
    /\ authPc = "idle"
    /\ StoreCredentials(acct, r)
    /\ UNCHANGED <<authLoading, logoutHandler, authPc, logoutsPending,
                   handlerCalls, apiResult, apiCalls, inEffect>>
    /\ UNCHANGED outsideAuth

\* signup(newToken, newUser)
Signup(acct, r) ==
    /\ authPc = "idle"
    /\ StoreCredentials(acct, r)
    /\ UNCHANGED <<authLoading, logoutHandler, authPc, logoutsPending,
                   handlerCalls, apiResult, apiCalls, inEffect>>
    /\ UNCHANGED outsideAuth

\* logout() called by a screen, up to its await of multiRemove
Logout ==
    /\ authPc = "idle"
    /\ logoutsPending < MaxInflight
    /\ logoutsPending' = logoutsPending + 1
    /\ UNCHANGED <<authUser, authToken, authLoading, storedToken, storedUser,
                   logoutHandler, authPc, handlerCalls, apiResult, apiCalls,
                   inEffect>>
    /\ UNCHANGED outsideAuth

\* logout() after its await: multiRemove resolved (ok) and the memory is
\* cleared, or it rejected and the catch rethrows
LogoutSettles(ok) ==
    /\ logoutsPending > 0
    /\ logoutsPending' = logoutsPending - 1
    /\ IF ok
         THEN /\ storedToken' = NoOne /\ storedUser' = NoOne
              /\ authToken' = NoOne /\ authUser' = NoOne
         ELSE UNCHANGED <<storedToken, storedUser, authToken, authUser>>
    /\ UNCHANGED <<authLoading, logoutHandler, authPc, handlerCalls, apiResult,
                   apiCalls, inEffect>>
    /\ UNCHANGED outsideAuth

\* an API call is answered (or fails without answer) and runs through the
\* response interceptor: _logoutHandler() on 401 / 403, not awaited, and the
\* error is rejected on to the caller
ApiResponse(status) ==
    /\ authPc # "unmounted"
    /\ apiCalls < MaxApiCalls
    /\ apiCalls' = apiCalls + 1
    /\ apiResult' = IF status = 200 THEN "resolved" ELSE "rejected"
    /\ IF status = 401 \/ status = 403
         THEN /\ handlerCalls' = handlerCalls + 1
              /\ logoutsPending' = IF logoutHandler = "logout"
                                     THEN logoutsPending + 1 ELSE logoutsPending
         ELSE UNCHANGED <<handlerCalls, logoutsPending>>
    /\ UNCHANGED <<authUser, authToken, authLoading, storedToken, storedUser,
                   logoutHandler, authPc, inEffect>>
    /\ UNCHANGED outsideAuth

\* the app is closed and started again: the memory and the module state are
\* new, the storage is what it was
Restart ==
    /\ authPc = "idle"
    /\ inEffect' = <<authToken, authUser>>
    /\ authToken' = NoOne /\ authUser' = NoOne
    /\ authLoading' = TRUE
    /\ logoutHandler' = "noop"
    /\ authPc' = "unmounted"
    /\ logoutsPending' = 0
    /\ apiResult' = "none"
    /\ UNCHANGED <<storedToken, storedUser, handlerCalls, apiCalls>>
    /\ UNCHANGED outsideAuth

NextAuth ==
    \/ AuthProviderMount
    \/ \E readOk \in BOOLEAN : CheckAuthState(readOk)
    \/ \E acct \in Accounts, r \in StoreOutcomes : Login(acct, r)
    \/ \E acct \in Accounts, r \in StoreOutcomes : Signup(acct, r)
    \/ Logout
    \/ \E ok \in BOOLEAN : LogoutSettles(ok)
    \/ \E status \in Statuses : ApiResponse(status)
    \/ Restart

SpecAuth == Init /\ [][NextAuth]_vars

----------------------------------------------------------------------------

(* Consent document generator: the signature as inline SVG                 *)

\* the characters of a path string that matter here: a command letter and
\* the blank
PathChars == {"M", " "}

\* path strings of up to MaxPathLen characters, the empty string included
RECURSIVE PathStrings(_)
PathStrings(n) ==
    IF n = 0 THEN {<<>>}
    ELSE PathStrings(n - 1) \cup
         {Append(t, c) : t \in PathStrings(n - 1), c \in PathChars}

\* path lists of up to n path strings, the empty list included
RECURSIVE PathLists(_)
PathLists(n) ==
    IF n = 0 THEN {<<>>}
    ELSE PathLists(n - 1) \cup
         {Append(l, t) : l \in PathLists(n - 1), t \in PathStrings(MaxPathLen)}

\* widths and heights of the signature area
Sizes == {0, 150, 300}

\* the decimal digits of a natural number, as a template literal prints it
Digit(k) == CASE k = 0 -> "0" [] k = 1 -> "1" [] k = 2 -> "2" [] k = 3 -> "3"
              [] k = 4 -> "4" [] k = 5 -> "5" [] k = 6 -> "6" [] k = 7 -> "7"
              [] k = 8 -> "8" [] k = 9 -> "9"

RECURSIVE NumberText(_)
NumberText(n) ==
    IF n < 10 THEN <<Digit(n)>> ELSE Append(NumberText(n \div 10), Digit(n % 10))

\* safePaths.join('') : the path strings one after the other
RECURSIVE JoinPlain(_)
JoinPlain(list) ==
    IF list = <<>> THEN <<>> ELSE Head(list) \o JoinPlain(Tail(list))

\* safePaths.join(' ')
RECURSIVE JoinPaths(_)
JoinPaths(list) ==
    IF list = <<>> THEN <<>>
    ELSE IF Len(list) = 1 THEN list[1]
    ELSE list[1] \o <<" ">> \o JoinPaths(Tail(list))

\* a generateSignatureSVG that joins the path strings without separator
GenerateSignatureSVGPlain(sig) ==
    LET combinedPathData == JoinPlain(sig.paths) IN
    IF combinedPathData = <<>>
      THEN [tag |-> "div", width |-> NumberText(sig.width),
            height |-> NumberText(sig.height), viewBox |-> <<>>, d |-> <<>>]
      ELSE [tag |-> "svg", width |-> NumberText(sig.width),
            height |-> NumberText(sig.height),
            viewBox |-> <<"0", " ", "0", " ">> \o NumberText(sig.width)
                           \o <<" ">> \o NumberText(sig.height),
            d |-> combinedPathData]

\* generateSignatureSVG(signatureData): the "Signature not provided" box when
\* the joined path data is the empty string, else the <svg> element with its
\* width, height, viewBox and the d attribute of its only <path>
GenerateSignatureSVG(sig) ==
    LET combinedPathData == JoinPaths(sig.paths) IN
    IF combinedPathData = <<>>
      THEN [tag |-> "div", width |-> NumberText(sig.width),
            height |-> NumberText(sig.height), viewBox |-> <<>>, d |-> <<>>]
      ELSE [tag |-> "svg", width |-> NumberText(sig.width),
            height |-> NumberText(sig.height),
            viewBox |-> <<"0", " ", "0", " ">> \o NumberText(sig.width)
                           \o <<" ">> \o NumberText(sig.height),
            d |-> combinedPathData]

\* a caller hands a signature to the generator
ReceiveSignature ==
    /\ ~sigInput.given
    /\ \E paths \in PathLists(MaxPaths), w \in Sizes, h \in Sizes :
          sigInput' = [paths |-> paths, width |-> w, height |-> h,
                       given |-> TRUE]
    /\ UNCHANGED <<consentDoc, pdfError>>
    /\ UNCHANGED outsideSvg

\* generateConsentPDF(signatureData, patientInfo): the HTML with the signature
\* element in its signature section is written to a file (writeOk), or the
\* write rejects and the function throws
GenerateConsentPDF(writeOk) ==
    /\ sigInput.given
    /\ ~consentDoc.written /\ ~pdfError
    /\ IF writeOk
         THEN /\ consentDoc' = [written |-> TRUE,
                                signature |-> GenerateSignatureSVG(sigInput)]
              /\ UNCHANGED pdfError
         ELSE /\ pdfError' = TRUE
              /\ UNCHANGED consentDoc
    /\ UNCHANGED sigInput
    /\ UNCHANGED outsideSvg

\* the call has returned or thrown; the next call starts afresh
GenerateReturns ==
    /\ consentDoc.written \/ pdfError
    /\ sigInput' = NoSignature
    /\ consentDoc' = NoDocument
    /\ pdfError' = FALSE
    /\ UNCHANGED outsideSvg

NextSvg ==
    \/ ReceiveSignature
    \/ \E writeOk \in BOOLEAN : GenerateConsentPDF(writeOk)
    \/ GenerateReturns

SpecSvg == Init /\ [][NextSvg]_vars

----------------------------------------------------------------------------

(* Consent flow: submit the signature, mark the consent, share the document *)

\* what the profile request can leave in patientData: nothing (it failed), a
\* profile with its creation date, a profile without one
Profiles == {"none", "full", "noDate"}

\* how an API call settles: success true, success false, or a rejection
ApiOutcomes == {"ok", "refused", "throws"}

\* how the share call settles: shared, sharing unavailable, or a rejection
ShareOutcomes == {"shared", "unavailable", "throws"}

\* the mount effect's fetchPatientData settles
FetchPatientData(profile) ==
    /\ isLoadingPatient
    /\ patientData' = profile
    /\ isLoadingPatient' = FALSE
    /\ UNCHANGED <<isSubmitting, consentPc, consentLog, consentAlert,
                   signaturesOnServer, consentComplete>>
    /\ UNCHANGED outsideConsent

\* the flow ends with an alert; the finally block clears isSubmitting
ConsentFlowEnds(alert) ==
    /\ consentAlert' = alert
    /\ isSubmitting' = FALSE
    /\ consentPc' = "idle"

\* handleSignatureComplete up to its first await: the pad's Save button
\* (enabled while not processing) hands over the signature
HandleSignatureComplete ==
    /\ ~isLoadingPatient /\ ~isSubmitting /\ consentPc = "idle"
    /\ signaturesOnServer < MaxSubmissions
    /\ IF patientData = "none"
         THEN /\ consentAlert' = "notLoaded"
              /\ UNCHANGED <<isSubmitting, consentPc, consentLog>>
         ELSE /\ isSubmitting' = TRUE
              /\ consentPc' = "submitting"
              /\ consentLog' = <<>>
              /\ UNCHANGED consentAlert
    /\ UNCHANGED <<patientData, isLoadingPatient, signaturesOnServer,
                   consentComplete>>
    /\ UNCHANGED outsideConsent

\* submitDigitalSignature settles and the flow goes on whatever the answer
SubmitSettlesRegardless(outcome) ==
    /\ consentPc = "submitting"
    /\ consentLog' = Append(consentLog, [step |-> "submit", ok |-> outcome = "ok"])
    /\ signaturesOnServer' = signaturesOnServer + (IF outcome = "ok" THEN 1 ELSE 0)
    /\ consentPc' = "updating"
    /\ UNCHANGED <<consentAlert, isSubmitting>>
    /\ UNCHANGED <<patientData, isLoadingPatient, consentComplete>>
    /\ UNCHANGED outsideConsent

\* submitDigitalSignature settles: on success the consent status update is
\* sent, else the flow ends with the 'Error' alert
SubmitSettles(outcome) ==
    /\ consentPc = "submitting"
    /\ consentLog' = Append(consentLog, [step |-> "submit", ok |-> outcome = "ok"])
    /\ CASE outcome = "ok" ->
              /\ signaturesOnServer' = signaturesOnServer + 1
              /\ consentPc' = "updating"
              /\ UNCHANGED <<consentAlert, isSubmitting>>
         [] outcome = "refused" ->
              /\ ConsentFlowEnds("error")
              /\ UNCHANGED signaturesOnServer
         [] outcome = "throws" ->
              /\ ConsentFlowEnds("unexpected")
              /\ UNCHANGED signaturesOnServer
    /\ UNCHANGED <<patientData, isLoadingPatient, consentComplete>>
    /\ UNCHANGED outsideConsent

\* updateConsentStatus settles: on success the patient info is put together
\* (which throws when the profile has no creation date) and the document
\* generation starts, else the flow ends with the 'Warning' alert
UpdateSettles(outcome) ==
    /\ consentPc = "updating"
    /\ consentLog' = Append(consentLog, [step |-> "update", ok |-> outcome = "ok"])
    /\ CASE outcome = "ok" ->
              /\ consentComplete' = TRUE
              /\ IF patientData = "noDate"
                   THEN ConsentFlowEnds("unexpected")
                   ELSE /\ consentPc' = "generating"
                        /\ UNCHANGED <<consentAlert, isSubmitting>>
         [] outcome = "refused" ->
              /\ ConsentFlowEnds("warning")
              /\ UNCHANGED consentComplete
         [] outcome = "throws" ->
              /\ ConsentFlowEnds("unexpected")
              /\ UNCHANGED consentComplete
    /\ UNCHANGED <<patientData, isLoadingPatient, signaturesOnServer>>
    /\ UNCHANGED outsideConsent

\* generateConsentPDF settles
GenerateSettles(ok) ==
    /\ consentPc = "generating"
    /\ consentLog' = Append(consentLog, [step |-> "generate", ok |-> ok])
    /\ IF ok
         THEN /\ consentPc' = "sharing"
              /\ UNCHANGED <<consentAlert, isSubmitting>>
         ELSE ConsentFlowEnds("unexpected")
    /\ UNCHANGED <<patientData, isLoadingPatient, signaturesOnServer,
                   consentComplete>>
    /\ UNCHANGED outsideConsent

\* shareConsentDocument settles; where sharing is unavailable it returns
\* without sharing and the flow still ends with 'Signature Submitted'
ShareSettles(outcome) ==
    /\ consentPc = "sharing"
    /\ consentLog' = Append(consentLog,
                            [step |-> IF outcome = "unavailable"
                                        THEN "shareSkipped" ELSE "share",
                             ok |-> outcome # "throws"])
    /\ ConsentFlowEnds(IF outcome = "throws" THEN "unexpected" ELSE "submitted")
    /\ UNCHANGED <<patientData, isLoadingPatient, signaturesOnServer,
                   consentComplete>>
    /\ UNCHANGED outsideConsent

NextConsent ==
    \/ \E profile \in Profiles : FetchPatientData(profile)
    \/ HandleSignatureComplete
    \/ \E outcome \in ApiOutcomes : SubmitSettles(outcome)
    \/ \E outcome \in ApiOutcomes : UpdateSettles(outcome)
    \/ \E ok \in BOOLEAN : GenerateSettles(ok)
    \/ \E outcome \in ShareOutcomes : ShareSettles(outcome)

SpecConsent == Init /\ [][NextConsent]_vars

----------------------------------------------------------------------------

(* Signature pad: one stored path per stroke                               *)

\* positions of the finger on the pad
PadPoints == {"p", "q"}

\* a path string is the sequence of its commands; '' is the empty sequence
MoveTo(pt) == <<[cmd |-> "M", at |-> pt]>>

LineTo(pt) == <<[cmd |-> "L", at |-> pt]>>

\* the terminal states of a gesture
EndStates == {"END", "CANCELLED", "FAILED"}

\* handleStateChange, state BEGAN: the finger touches the pad at pt and a new
\* path replaces whatever pathRef held
GestureBegan(pt) ==
    /\ gesture = "undetermined"
    /\ Len(drawn) < MaxStrokes
    /\ gesture' = "began"
    /\ pathRef' = MoveTo(pt)
    /\ currentPath' = MoveTo(pt)
    /\ hasSignature' = TRUE
    /\ strokePts' = <<pt>>
    /\ UNCHANGED <<padPaths, padSaved, drawn>>
    /\ UNCHANGED outsidePad

\* handleStateChange, state ACTIVE: neither branch is taken
GestureActive ==
    /\ gesture = "began"
    /\ gesture' = "active"
    /\ UNCHANGED <<padPaths, currentPath, hasSignature, pathRef, padSaved,
                   strokePts, drawn>>
    /\ UNCHANGED outsidePad

\* a handleGestureEvent without the guard on pathRef
HandleGestureEventUnguarded(pt) ==
    /\ Len(pathRef) < MaxPoints
    /\ pathRef' = pathRef \o LineTo(pt)
    /\ currentPath' = pathRef \o LineTo(pt)
    /\ strokePts' = IF strokePts = <<>> THEN strokePts ELSE Append(strokePts, pt)
    /\ UNCHANGED <<padPaths, hasSignature, padSaved, gesture, drawn>>
    /\ UNCHANGED outsidePad

\* handleGestureEvent: a move event at pt, whenever it arrives; it is
\* ignored when pathRef is empty, else a line to pt is appended
HandleGestureEvent(pt) ==
    /\ Len(pathRef) < MaxPoints
    /\ IF pathRef = <<>>
         THEN UNCHANGED <<pathRef, currentPath>>
         ELSE /\ pathRef' = pathRef \o LineTo(pt)
              /\ currentPath' = pathRef \o LineTo(pt)
    /\ strokePts' = IF strokePts = <<>> THEN strokePts ELSE Append(strokePts, pt)
    /\ UNCHANGED <<padPaths, hasSignature, padSaved, gesture, drawn>>
    /\ UNCHANGED outsidePad

\* handleStateChange, state END, CANCELLED or FAILED: a non-empty pathRef is
\* appended to the stored paths and cleared
GestureEnds(state) ==
    /\ state \in EndStates
    /\ gesture \in {"began", "active"}
    /\ gesture' = "undetermined"
    /\ IF pathRef # <<>>
         THEN /\ padPaths' = Append(padPaths, pathRef)
              /\ pathRef' = <<>>
              /\ currentPath' = <<>>
         ELSE UNCHANGED <<padPaths, pathRef, currentPath>>
    /\ drawn' = IF strokePts = <<>> THEN drawn ELSE Append(drawn, strokePts)
    /\ strokePts' = <<>>
    /\ UNCHANGED <<hasSignature, padSaved>>
    /\ UNCHANGED outsidePad

\* clearSignature (the Clear button is enabled once there is a signature):
\* the pad is wiped, the stroke in progress included
ClearSignature ==
    /\ hasSignature
    /\ padPaths' = <<>>
    /\ currentPath' = <<>>
    /\ pathRef' = <<>>
    /\ hasSignature' = FALSE
    /\ strokePts' = <<>>
    /\ drawn' = <<>>
    /\ UNCHANGED <<padSaved, gesture>>
    /\ UNCHANGED outsidePad

\* saveSignature: the stored paths, with the stroke in progress if there is
\* one, are handed to onSignatureComplete
SaveSignature ==
    /\ hasSignature
    /\ LET finalPaths == IF pathRef # <<>> THEN Append(padPaths, pathRef)
                         ELSE padPaths
       IN  padSaved' = IF finalPaths = <<>> THEN padSaved ELSE Len(finalPaths)
    /\ UNCHANGED <<padPaths, currentPath, hasSignature, pathRef, gesture,
                   strokePts, drawn>>
    /\ UNCHANGED outsidePad

NextPad ==
    \/ \E pt \in PadPoints : GestureBegan(pt)
    \/ GestureActive
    \/ \E pt \in PadPoints : HandleGestureEvent(pt)
    \/ \E state \in EndStates : GestureEnds(state)
    \/ ClearSignature
    \/ SaveSignature

SpecPad == Init /\ [][NextPad]_vars

----------------------------------------------------------------------------

(* Steps named in the properties                                           *)

AssistantTextDeltaStep == \E t \in SessionTexts : AssistantTextDelta(t)
FinalTranscriptStep == \E t \in SpeakTexts : FinalTranscript(t)
TaskOkStep == \E m \in AvatarMessages : m.task = "ok" /\ AvatarMessage(m)
TaskDoneStep == \E m \in AvatarMessages : m.task = "done" /\ AvatarMessage(m)
DetachStep ==
    \E m \in AvatarMessages : m.task \in {"error", "conn"} /\ AvatarMessage(m)
BookRejectedStep == \E r \in {"fail", "throw"} : BookResult(r)
ToggleFailedStep ==
    \E i \in 1..MaxToggles, o \in {"unsuccessful", "network"} : ToggleSettled(i, o)
LogoutSettlesStep == \E ok \in BOOLEAN : LogoutSettles(ok)

\* how many times x is in a list
Count(list, x) == Cardinality({i \in 1..Len(list) : list[i] = x})

----------------------------------------------------------------------------
(* Properties of the check-in session                                      *)

\* C1: the microphone is never recording while the assistant is talking:
\* recording is never true together with local TTS playback in progress
\* (isAssistantSpeaking) or an awaited avatar speak task (awaitingAvatarTask).
NoRecordingWhileAssistantTalks ==
    ~(recording /\ (isAssistantSpeaking \/ awaitingAvatarTask))

\* C2: a recording begins only from a state where canSpeak is true: the step
\* that starts the recorder and sets recording is never taken with
\* canSpeak = false.
RecordingStartsOnlyWhenCanSpeak ==
    [][(~recording /\ recording') => canSpeak]_vars

\* C3: releasing the mic button when no recording is on is a no-op: pressOut
\* run with recording = false emits no audio_chunk, does not stop the recorder
\* and leaves no pressOut suspended that could emit later.
ReleaseWithoutRecordingIsNoOp ==
    [][(PressOut /\ ~recording) =>
          /\ emittedAudio' = emittedAudio
          /\ recorderState' = recorderState
          /\ pressOutPending' = pressOutPending
          /\ recording' = recording]_vars

\* a press passed the guard, its recording never started, and the release
\* has run: isPressing is still set because pressOut returned at once
ReleasedWithoutRecording ==
    /\ isPressing /\ ~held /\ ~recording
    /\ pressInPending = 0 /\ pressOutPending = 0
    /\ recorderState = "idle" /\ emittedAudio = {}

\* C4: every audio_chunk the client has emitted carries a base64 payload
\* longer than 1500 characters; an empty or shorter capture emits nothing.
EmittedAudioAboveThreshold ==
    \A size \in emittedAudio : size > MIN_AUDIO_B64

\* a turn was captured, released and sent
AudioTurnEmitted ==
    /\ emittedAudio = {MIN_AUDIO_B64 + 1}
    /\ ~recording /\ pressOutPending = 0

\* C5: while the avatar is enabled and an avatar speak task is awaited the mic
\* is closed (canSpeak = false), and in that state canSpeak becomes true only
\* by the avatar's TASK_DONE or by a detach (TASK_ERROR, connection failure),
\* never by turn_ready or ai_audio_done.
MicClosedWhileAvatarTaskAwaited ==
    /\ [](heygenEnabled /\ awaitingAvatarTask => ~canSpeak)
    /\ [][(heygenEnabled /\ awaitingAvatarTask /\ canSpeak')
             => (TaskDoneStep \/ DetachStep)]_vars

\* a final transcript was dispatched to the avatar and its task is awaited
AvatarTaskAwaited ==
    /\ heygenEnabled /\ awaitingAvatarTask /\ ~canSpeak
    /\ speakCount > 0 /\ interviewStarted

\* C6: detach is a one-way downgrade: once detachFromHeygen has run the avatar
\* stays disabled and its token cleared, no further speak command is sent to
\* the player (queued texts included), and every later final_transcript takes
\* the local TTS branch (shown at once, mic closed, nothing queued).
DetachIsOneWay ==
    /\ [](detached => ~heygenEnabled /\ ~heygenToken /\ ~WebViewMounted)
    /\ [][detached => (speakCount' = speakCount /\ detached')]_vars
    /\ [][(detached /\ FinalTranscriptStep) =>
             /\ syncedTranscript' = transcript'
             /\ ~canSpeak'
             /\ pendingSpeakQueue' = pendingSpeakQueue
             /\ awaitingAvatarTask' = awaitingAvatarTask]_vars

\* after a detach, with a text still queued for the avatar, a later turn was
\* shown by the TTS branch
TurnAfterDetach ==
    /\ detached /\ interviewStarted /\ pendingSpeakQueue # <<>>
    /\ transcript # <<>> /\ syncedTranscript = transcript
    /\ transcript # Head(pendingSpeakQueue)

\* C7 (as stated): of two submissions of the same text within 2 seconds the
\* first is spoken and the second suppressed, and any other submission is
\* spoken: a final_transcript dispatched to the ready avatar sends exactly one
\* speak command unless its trimmed text equals the last spoken text and less
\* than 2 seconds have passed since.
EverySubmissionSpokenOnce ==
    [][(FinalTranscriptStep /\ heygenEnabled /\ avatarReady) =>
          speakCount' = speakCount +
              (IF Trim(transcript') = lastSpokenText
                    /\ lastSpeakAge < DEDUP_WINDOW_MS THEN 0 ELSE 1)]_vars

\* C7 (amended): for a text that is not empty after trimming, dispatched to
\* the ready avatar: if it equals the last spoken text and less than 2 seconds
\* have passed since that was spoken it is suppressed (no speak command, the
\* window is not restarted); otherwise, 2 seconds or more later or after a
\* different text, it is spoken exactly once and becomes the last spoken text.
\* A text that is empty after trimming is never spoken.
DuplicateWithinWindowSuppressed ==
    [][(FinalTranscriptStep /\ heygenEnabled /\ avatarReady) =>
          LET n == Trim(transcript') IN
          IF n = <<>>
            THEN speakCount' = speakCount /\ lastSpokenText' = lastSpokenText
          ELSE IF n = lastSpokenText /\ lastSpeakAge < DEDUP_WINDOW_MS
            THEN /\ speakCount' = speakCount
                 /\ lastSpeakAge' = lastSpeakAge
                 /\ avatarStatus' = "skipped duplicate"
          ELSE /\ speakCount' = speakCount + 1
               /\ lastSpokenText' = n
               /\ lastSpeakAge' = 0]_vars

\* one text was spoken and its repetition inside the window was skipped
DuplicateSkipped ==
    /\ avatarStatus = "skipped duplicate" /\ speakCount = 1
    /\ lastSpeakAge < DEDUP_WINDOW_MS /\ Trim(transcript) = lastSpokenText

DeltaOnlyBuffers ==
    /\ [][AssistantTextDeltaStep =>
             /\ syncedTranscript' = syncedTranscript
             /\ ~canSpeak'
             /\ (pendingAssistantText' # pendingAssistantText
                    => pendingAssistantText' # <<>>)]_vars
    /\ [][syncedTranscript' # syncedTranscript =>
             \/ TaskOkStep \/ TaskDoneStep \/ TypewriterTick
             \/ (~heygenEnabled /\ FinalTranscriptStep)]_vars

\* a delta was buffered for the avatar and nothing of it is displayed
DeltaBuffered ==
    /\ pendingAssistantText # <<>> /\ syncedTranscript = <<>>
    /\ heygenEnabled /\ avatarReady /\ awaitingAvatarTask /\ ~canSpeak
    /\ speakCount = 0 /\ pendingSpeakQueue = <<>> /\ interviewStarted

\* C10: whenever done or disconnect was received the session is Done and the
\* terminal completion message is surfaced: on the check-in step of the
\* screen, before or after the interview was started, isDone comes with the
\* finished modal visible.
DoneSurfacesFinishedModal ==
    (step = 2 /\ isDone) => (finishedMessage /\ FinishedModalVisible)

\* C11: once the session is Done it stays Done and further input is rejected:
\* from a state with isDone no step emits an audio_chunk or a start event and
\* no step starts a recording, whatever was in progress when done or
\* disconnect arrived.
DoneRejectsFurtherInput ==
    [][isDone =>
          /\ isDone'
          /\ emittedAudio' = emittedAudio
          /\ startEmitted' = startEmitted
          /\ (recording' => recording)]_vars

\* C12: the avatar never blocks the interview: once startInterviewFlow is
\* under way the interview is eventually started with a start event emitted;
\* when no token is obtained or the request throws, and when the poll ends
\* without readiness and session id, the interview is started in that step
\* with the avatar disabled and its token cleared.
AvatarWaitIsBounded ==
    /\ (flowPc \in {"token", "poll"}) ~>
          (flowPc = "done" /\ interviewStarted /\ startEmitted > 0)
    /\ [][(\E r \in {"none", "throw"} : TokenResult(r)) =>
             /\ ~heygenEnabled' /\ ~heygenToken'
             /\ interviewStarted' /\ startEmitted' = startEmitted + 1]_vars
    /\ [][(PollExit /\ ~(avatarReady /\ avatarSessionId)) =>
             /\ ~heygenEnabled' /\ ~heygenToken'
             /\ interviewStarted' /\ startEmitted' = startEmitted + 1]_vars
    /\ [][(PollExit /\ avatarReady /\ avatarSessionId) =>
             /\ heygenEnabled' = heygenEnabled
             /\ interviewStarted' /\ startEmitted' = startEmitted + 1]_vars

\* the poll timed out on an avatar that never became ready and the interview
\* runs without it
StartedAfterAvatarTimeout ==
    /\ flowPc = "done" /\ interviewStarted /\ startEmitted = 1
    /\ ~heygenEnabled /\ ~heygenToken /\ ~detached /\ ~avatarReady
    /\ avatarStatus = "waiting for avatar ready + session id"

\* C13: at most one turn is outstanding: never more than one speak command is
\* with the avatar unreported, and a recording is never started on a recorder
\* that is already recording.
OneOutstandingTurn ==
    /\ [](speaksOutstanding <= 1)
    /\ [][(pressInPending' < pressInPending /\ recording') => ~recording]_vars

\* C14: a denied microphone permission is fatal: one alert has been shown, no
\* socket exists, the screen stays in Connecting with the Start button
\* disabled, and no start or audio_chunk is ever emitted.
PermissionDenialIsFatal ==
    /\ [](mountPc = "denied" =>
             /\ alertCount = 1
             /\ socket = "none"
             /\ isConnecting /\ ~StartButtonEnabled /\ ~MicEnabled
             /\ ~interviewStarted /\ flowPc = "idle"
             /\ startEmitted = 0 /\ emittedAudio = {})
    /\ [][mountPc = "denied" => mountPc' = "denied"]_vars

\* permission was denied and the patient went on to the check-in step
DeniedOnCheckInStep ==
    mountPc = "denied" /\ step = 2 /\ alertCount = 1

ConnectingEndsOnConnect ==
    /\ [][(isConnecting /\ ~isConnecting') => SocketConnect]_vars
    /\ [](isConnecting => (~interviewStarted /\ startEmitted = 0
                             /\ flowPc = "idle" /\ ~StartButtonEnabled))

\* connected first, started afterwards
StartedAfterConnect ==
    ~isConnecting /\ socket = "connected" /\ interviewStarted /\ startEmitted = 1

\* C17: after the screen is left the socket is closed, no timer is pending,
\* and nothing of the session runs any more: the interview flow does not
\* advance, no start or audio_chunk is emitted and no ref of the session
\* changes.
TeardownStopsEverything ==
    /\ [](~mounted => (socket \in {"none", "closed"}
                          /\ ~typeTimer /\ ~ttsFlushTimer))
    /\ [][~mounted =>
             /\ flowPc' = flowPc
             /\ startEmitted' = startEmitted
             /\ emittedAudio' = emittedAudio
             /\ refVars' = refVars]_vars

\* C18: a rejected booking is rolled back: after confirmBook has completed
\* the slot is again in the day list and in the month cache entry of its date,
\* once in each, and no slot either of them held before the attempt is
\* missing.
RejectedBookingRestoresSlot ==
    [][BookRejectedStep =>
          /\ Count(slots', bookCall.slot) = 1
          /\ Count(monthSlots'[bookCall.date], bookCall.slot) = 1
          /\ \A x \in AllSlots :
                /\ Count(slots', x) >= Count(slotsBefore, x)
                /\ Count(monthSlots'[bookCall.date], x) >= Count(monthBefore, x)]_vars

\* C19: when the booking request is sent the slot is gone from the day list
\* and from every entry of the month cache; a successful booking shows the
\* confirmation and arms the refresh, and the refresh eventually runs, and
\* when it runs it asks the server for the appointment list, for the day's
\* slots and for the month's availability.
OptimisticBookingThenRefresh ==
    /\ [][ConfirmBook =>
             /\ bookCall' # NoCall
             /\ Count(slots', bookCall'.slot) = 0
             /\ \A d \in Dates : Count(monthSlots'[d], bookCall'.slot) = 0]_vars
    /\ [][BookResult("ok") =>
             /\ apptAlerts' = Append(apptAlerts, "Success")
             /\ bookCall \in refreshTimer']_vars
    /\ (refreshTimer # {}) ~> (refreshTimer = {})
    /\ [][\A c \in BookingCalls :
             (c \in refreshTimer /\ c \notin refreshTimer') =>
                /\ loading' /\ apptLoads' = apptLoads + 1
                /\ c.date \in dayLoads'
                /\ c.month \in monthLoads']_vars

\* C20: when the status update of a toggle fails (an unsuccessful response or
\* a network error) the displayed status goes back to what it was before the
\* toggle and an error alert is shown.
FailedToggleReverts ==
    [][(ToggleFailedStep /\ Len(toggleCalls) = 1) =>
          /\ exam' = toggleCalls[1].old
          /\ examAlerts' = examAlerts + 1]_vars

PushToTalkCycleEndsIdle ==
    (~held /\ pressInPending = 0 /\ pressOutPending = 0)
        => (~recording /\ ~isPressing /\ recorderState # "recording")

\* C26: in avatar mode the mic reopens after every assistant turn, also
\* after a turn whose speech the duplicate guard skipped: when the mic is
\* closed for such a turn (canSpeak false, the avatar task awaited, the last
\* speak skipped as a duplicate), the mic eventually reopens or the session
\* becomes Done.
MicReopensAfterAvatarTurn ==
    (/\ heygenEnabled /\ interviewStarted /\ awaitingAvatarTask /\ ~canSpeak
     /\ avatarStatus = "skipped duplicate")
        ~> (canSpeak \/ isDone)

\* C29: every date that is a key of the month cache maps to a non-empty slot
\* list (and a date without key has no cached slots), so the month grid's
\* dot, which tests the key, is shown exactly for the days with a cached
\* slot.
MonthCacheKeysNonEmpty ==
    \A d \in Dates : (d \in monthKeys) <=> (monthSlots[d] # <<>>)

\* the optimistic removal took the last cached slot of the selected day and
\* with it the day's key, while the booking request is in flight
LastSlotOfDayRemoved ==
    /\ bookCall # NoCall
    /\ monthBefore = <<bookCall.slot>>
    /\ bookCall.date \notin monthKeys

\* C28: a response for an earlier selection never overwrites the result of a
\* later one: once the visible day list holds the slots of the selected date
\* and no request for that date is in flight, an availability response for
\* another date leaves the list as it is; likewise the month cache and a
\* response for a month other than the current one.
LatestSelectionWins ==
    /\ [][\A d \in Dates :
             (/\ DayLoadDone(d, TRUE) /\ d # selectedDate
              /\ selectedDate \notin dayLoads
              /\ slots # <<>> /\ slots = DaySlots(selectedDate))
                => slots' = slots]_vars
    /\ [][\A m \in Months :
             (/\ MonthLoadDone(m) /\ m # currentMonth
              /\ currentMonth \notin monthLoads
              /\ \A d \in Dates : monthSlots[d] =
                     IF MonthOf(d) = currentMonth THEN DaySlots(d) ELSE <<>>)
                => UNCHANGED <<monthSlots, monthKeys>>]_vars

\* C21: an API response with status 401 or 403 calls the registered logout
\* handler once, and every logout that was started ends with the stored and
\* the in-memory token and user cleared; the caller of the API method still
\* gets the failure; a response with any other status does not call the
\* handler.
LogoutOnAuthFailure ==
    /\ [][\A status \in Statuses :
             ApiResponse(status) =>
                /\ handlerCalls' = handlerCalls +
                       (IF status \in {401, 403} THEN 1 ELSE 0)
                /\ status \in {401, 403} =>
                       /\ apiResult' = "rejected"
                       /\ logoutHandler = "logout"
                       /\ logoutsPending' = logoutsPending + 1]_vars
    /\ [][(LogoutSettlesStep /\ handlerCalls > 0) =>
             /\ authToken' = NoOne /\ authUser' = NoOne
             /\ storedToken' = NoOne /\ storedUser' = NoOne]_vars

\* C23: whenever no auth operation is in progress the persisted (token, user)
\* pair equals the in-memory pair, both present or both absent, and
\* checkAuthState after a restart restores the authentication that was in
\* effect when the app was closed.
AuthStoreAgrees ==
    /\ [](authPc = "idle" /\ logoutsPending = 0 =>
             /\ <<storedToken, storedUser>> = <<authToken, authUser>>
             /\ (authToken = NoOne) <=> (authUser = NoOne))
    /\ [][CheckAuthState(TRUE) => <<authToken', authUser'>> = inEffect]_vars

\* the d attribute the statement asks for: the path strings in order with
\* one blank between neighbours
RECURSIVE SpaceJoined(_)
SpaceJoined(list) ==
    IF Len(list) <= 1 THEN (IF list = <<>> THEN <<>> ELSE list[1])
    ELSE SpaceJoined(SubSeq(list, 1, Len(list) - 1)) \o <<" ">> \o list[Len(list)]

Performed(st) == \E i \in 1..Len(consentLog) : consentLog[i].step = st

Succeeded(st) ==
    \E i \in 1..Len(consentLog) : consentLog[i].step = st /\ consentLog[i].ok

\* C30: in the consent flow the consent status is updated only after the
\* signature submission succeeded, the document is generated and shared only
\* after both the submission and the status update succeeded, and a failed
\* step is the last step of its flow.
ConsentStepsOrdered ==
    /\ (consentPc = "updating" \/ Performed("update")) => Succeeded("submit")
    /\ (consentPc \in {"generating", "sharing"} \/ Performed("generate")
          \/ Performed("share") \/ Performed("shareSkipped"))
         => (Succeeded("submit") /\ Succeeded("update"))
    /\ (consentPc = "sharing" \/ Performed("share") \/ Performed("shareSkipped"))
         => Succeeded("generate")
    /\ \A i \in 1..Len(consentLog) :
          ~consentLog[i].ok => (i = Len(consentLog) /\ consentPc = "idle")
    /\ consentComplete => signaturesOnServer > 0

\* a flow went through all four steps and ended with 'Signature Submitted'
ConsentFlowCompleted ==
    /\ consentPc = "idle" /\ ~isSubmitting
    /\ consentAlert = "submitted"
    /\ consentComplete /\ signaturesOnServer > 0
    /\ Len(consentLog) = 4
    /\ consentLog[1] = [step |-> "submit", ok |-> TRUE]
    /\ consentLog[2] = [step |-> "update", ok |-> TRUE]
    /\ consentLog[3] = [step |-> "generate", ok |-> TRUE]
    /\ consentLog[4] = [step |-> "share", ok |-> TRUE]


\* the path string of a stroke through the points pts: M at the first point,
\* then an L at every further point
StrokePath(pts) ==
    [i \in 1..Len(pts) |-> [cmd |-> IF i = 1 THEN "M" ELSE "L", at |-> pts[i]]]

\* C25: in the signature pad each stored path is exactly the points of one
\* gesture from its BEGAN point to its end, the finished strokes are stored
\* once each and in drawing order, and a move event received while no stroke
\* is in progress changes nothing.
StrokesStayIsolated ==
    /\ Len(padPaths) = Len(drawn)
    /\ \A i \in 1..Len(padPaths) : padPaths[i] = StrokePath(drawn[i])
    /\ pathRef = StrokePath(strokePts)

\* two strokes, the second one longer, stored in the order drawn
TwoStrokesStored ==
    /\ Len(padPaths) = 2
    /\ gesture = "undetermined" /\ pathRef = <<>>
    /\ padPaths[1] = MoveTo("q")
    /\ padPaths[2] = MoveTo("p") \o LineTo("q")

====
